---------------------------- MODULE Spec2Model ----------------------------
(***************************************************************************)
(* A model of the SRT -> WebVTT conversion pipeline: the SRT parser        *)
(* (utils/srt-parser.js), the VTT generator and its two validators         *)
(* (utils/vtt-generator.js) and the encoding normaliser                    *)
(* (utils/encoding.js).                                                    *)
(*                                                                         *)
(* A JavaScript string is a sequence of one-character strings; a buffer    *)
(* is a sequence of byte values 0..255; a decoded text of the encoding     *)
(* module is a sequence of code points.  A JavaScript value is a record    *)
(* tagged with its type in field t.                                        *)
(***************************************************************************)
EXTENDS Integers, Sequences, FiniteSets, TLC

VARIABLES
    input,      \* the value the caller holds: what the operations are applied to
    out,        \* the result of each operation called so far, by operation name
    lastIndex,  \* the lastIndex of every regular expression of LANGUAGE_PATTERNS
    correction  \* the call of correctSubtitleText in progress: where it stands

vars == <<input, out, lastIndex, correction>>

(***************************************************************************)
(* Characters and JavaScript values                                        *)
(***************************************************************************)
LF  == "\n"
CR  == "\r"
TAB == "\t"
\* U+FEFF, one UTF-16 code unit
BOM == "<FEFF>"
\* a lone high surrogate U+D800, one UTF-16 code unit with no UTF-8 encoding
LONE == "<D800>"

Digits == {"0", "1", "2", "3", "4", "5", "6", "7", "8", "9"}

\* ECMAScript WhiteSpace and LineTerminator, as String.prototype.trim and
\* the regular expression class \s see them (U+FEFF is WhiteSpace)
WhiteSpace == {" ", TAB, LF, CR, BOM}

IsDigit(c) == c \in Digits

IsSpace(c) == c \in WhiteSpace

Str(s) == [t |-> "string", s |-> s]

JSNull == [t |-> "null", s |-> <<>>]

JSUndefined == [t |-> "undefined", s |-> <<>>]

JSNumber == [t |-> "number", s |-> <<>>]

\* the values on which a method call such as content.replace(...) or
\* vttContent.charCodeAt(0) raises a TypeError
NonStrings == {JSNull, JSUndefined, JSNumber}

IsString(v) == v.t = "string"

\* a test that only null and undefined fail
FalsyNullish(v) == v.t \in {"null", "undefined"}

\* !v for the values of the model: null, undefined and '' are falsy; the
\* number of the model is non-zero
Falsy(v) == v.t \in {"null", "undefined"} \/ (v.t = "string" /\ v.s = <<>>)

\* an array of the elements a
Array(a) == [t |-> "array", a |-> a]

\* a return value and a thrown Error; the message of an Error is the
\* sequence of the parts its template string is made of
Ok(v) == [ok |-> TRUE, val |-> v, err |-> <<>>]

Throw(m) == [ok |-> FALSE, val |-> <<>>, err |-> m]

(***************************************************************************)
(* String helpers                                                          *)
(***************************************************************************)
TrimStart(s) ==
    IF \A i \in 1..Len(s) : IsSpace(s[i]) THEN <<>>
    ELSE SubSeq(s, CHOOSE i \in 1..Len(s) :
                       ~IsSpace(s[i]) /\ \A j \in 1..(i - 1) : IsSpace(s[j]),
                Len(s))

TrimEnd(s) ==
    IF \A i \in 1..Len(s) : IsSpace(s[i]) THEN <<>>
    ELSE SubSeq(s, 1, CHOOSE i \in 1..Len(s) :
                          ~IsSpace(s[i]) /\ \A j \in (i + 1)..Len(s) : IsSpace(s[j]))

InRange(c, lo, hi) == lo <= c /\ c <= hi

\* String.prototype.trim
trim(s) == TrimEnd(TrimStart(s))

\* /^\d+$/.test(s)
IsAllDigits(s) == s # <<>> /\ \A i \in 1..Len(s) : IsDigit(s[i])

\* s.startsWith(p)
startsWith(s, p) == Len(s) >= Len(p) /\ SubSeq(s, 1, Len(p)) = p

\* s.includes(p)
includes(s, p) ==
    \E i \in 1..(Len(s) - Len(p) + 1) : SubSeq(s, i, i + Len(p) - 1) = p

\* the position of the first sep in s, 0 when there is none
FirstIndexOf(s, sep) ==
    IF \E i \in 1..Len(s) : s[i] = sep
    THEN CHOOSE i \in 1..Len(s) : s[i] = sep /\ \A j \in 1..(i - 1) : s[j] # sep
    ELSE 0

\* s.split(sep) for a one-character separator
RECURSIVE split(_, _)
split(s, sep) ==
    LET p == FirstIndexOf(s, sep)
    IN  IF p = 0 THEN <<s>>
        ELSE <<SubSeq(s, 1, p - 1)>> \o split(SubSeq(s, p + 1, Len(s)), sep)

\* lines.join(sep)
RECURSIVE join(_, _)
join(ls, sep) ==
    IF ls = <<>> THEN <<>>
    ELSE IF Len(ls) = 1 THEN ls[1]
    ELSE ls[1] \o sep \o join(Tail(ls), sep)

\* parseInt(s, 10) of a digits-only string
DigitValue(c) ==
    CASE c = "0" -> 0 [] c = "1" -> 1 [] c = "2" -> 2 [] c = "3" -> 3
      [] c = "4" -> 4 [] c = "5" -> 5 [] c = "6" -> 6 [] c = "7" -> 7
      [] c = "8" -> 8 [] c = "9" -> 9

RECURSIVE parseInt(_)
parseInt(s) ==
    IF s = <<>> THEN 0
    ELSE 10 * parseInt(SubSeq(s, 1, Len(s) - 1)) + DigitValue(s[Len(s)])

(***************************************************************************)
(* The timestamp regular expressions                                       *)
(***************************************************************************)
\* \d{2}:\d{2}:\d{2}<sep>\d{3} matched at position i of s; with ranged, the
\* minutes and seconds fields are [0-5]\d
MatchTimestampAt(s, i, sep, ranged) ==
    /\ i >= 1
    /\ i + 11 <= Len(s)
    /\ \A k \in {0, 1, 3, 4, 6, 7, 9, 10, 11} : IsDigit(s[i + k])
    /\ s[i + 2] = ":"
    /\ s[i + 5] = ":"
    /\ s[i + 8] = sep
    /\ ranged => (s[i + 3] \in {"0", "1", "2", "3", "4", "5"}
                  /\ s[i + 6] \in {"0", "1", "2", "3", "4", "5"})

\* \s* from position i: the first position at or after i that holds no
\* white space (Len(s) + 1 when there is none)
RECURSIVE SkipSpaces(_, _)
SkipSpaces(s, i) ==
    IF i <= Len(s) /\ IsSpace(s[i]) THEN SkipSpaces(s, i + 1) ELSE i

\* <timestamp>\s*-->\s*<timestamp> matched at position i of s: the position
\* after the match, 0 when there is no match.  "-" is no white space, so the
\* greedy \s* never has to give characters back.
TimestampPairEnd(s, i, sep) ==
    IF ~MatchTimestampAt(s, i, sep, FALSE) THEN 0
    ELSE LET j == SkipSpaces(s, i + 12)
         IN  IF ~(j + 2 <= Len(s) /\ SubSeq(s, j, j + 2) = <<"-", "-", ">">>)
             THEN 0
             ELSE LET k == SkipSpaces(s, j + 3)
                  IN  IF MatchTimestampAt(s, k, sep, FALSE) THEN k + 12 ELSE 0

\* a slip: the parser's expression with the generator's ranges [0-5]\d for
\* minutes and seconds
IsSRTTimestampLineRanged(s) ==
    /\ TimestampPairEnd(s, 1, ",") = Len(s) + 1
    /\ MatchTimestampAt(s, 1, ",", TRUE)
    /\ MatchTimestampAt(s, Len(s) - 11, ",", TRUE)

\* /^\d{2}:\d{2}:\d{2},\d{3}\s*-->\s*\d{2}:\d{2}:\d{2},\d{3}$/.test(s)
IsSRTTimestampLine(s) == TimestampPairEnd(s, 1, ",") = Len(s) + 1

\* /\d{2}:\d{2}:\d{2}\.\d{3}\s*-->\s*\d{2}:\d{2}:\d{2}\.\d{3}/ found in s
HasVTTTimestampPair(s) == \E i \in 1..Len(s) : TimestampPairEnd(s, i, ".") # 0

(***************************************************************************)
(* utils/srt-parser.js                                                     *)
(***************************************************************************)
\* .replace(/\r\n/g, '\n').replace(/\r/g, '\n'): the line feed of each CR LF
\* is dropped and every carriage return becomes a line feed
NormalizeLineEndings(s) ==
    LET marked == [i \in 1..Len(s) |->
                     [c |-> IF s[i] = CR THEN LF ELSE s[i],
                      keep |-> ~(s[i] = LF /\ i > 1 /\ s[i - 1] = CR)]]
        kept == SelectSeq(marked, LAMBDA m : m.keep)
    IN  [i \in 1..Len(kept) |-> kept[i].c]

\* .replace(/^\uFEFF/, ''): one leading U+FEFF is removed
StripLeadingBOM(s) == IF s # <<>> /\ Head(s) = BOM THEN Tail(s) ELSE s

\* the lines the parser works on (srt-parser.js:35-38)
SRTLines(content) == split(NormalizeLineEndings(StripLeadingBOM(content)), LF)

\* while (i < lines.length && lines[i].trim() === '') i++   (1-based here)
RECURSIVE SkipEmptyLines(_, _)
SkipEmptyLines(lines, i) ==
    IF i <= Len(lines) /\ trim(lines[i]) = <<>> THEN SkipEmptyLines(lines, i + 1) ELSE i

\* a slip: every blank line that has a line after it ends the block
TextLineStepEveryBlank(lines, i) ==
    IF trim(lines[i]) = <<>> /\ i + 1 <= Len(lines) THEN "break" ELSE "push"

\* The decision the text loop takes on line i (srt-parser.js:77-96):
\* "break" ends the block, "throw" is the invalid index found by the
\* lookahead, "push" keeps the line in the text.
TextLineStep(lines, i) ==
    IF trim(lines[i]) = <<>> /\ i + 1 <= Len(lines)
    THEN LET nextLine == trim(lines[i + 1])
         IN  IF /\ nextLine # <<>>
                /\ i + 2 <= Len(lines)
                /\ IsSRTTimestampLine(trim(lines[i + 2]))
             THEN IF ~IsAllDigits(nextLine) THEN "throw" ELSE "break"
             ELSE IF IsAllDigits(nextLine) THEN "break" ELSE "push"
    ELSE "push"

\* The text loop (srt-parser.js:71-100) from line i with textLines collected
\* so far: the lines of the block and the position after them, or the error.
RECURSIVE CollectText(_, _, _)
CollectText(lines, i, textLines) ==
    IF i > Len(lines) THEN Ok([next |-> i, textLines |-> textLines])
    ELSE LET step == TextLineStep(lines, i)
         IN  IF step = "throw"
             THEN Throw(<<"Invalid subtitle index at line ", ToString(i + 1),
                          " (expected number)">>)
             ELSE IF step = "break"
             THEN Ok([next |-> i, textLines |-> textLines])
             ELSE CollectText(lines, i + 1, Append(textLines, lines[i]))

\* One block (srt-parser.js:50-116) starting at the non-empty line i: the
\* record and the position after the block, or the error.
ParseBlock(lines, i) ==
    LET indexLine == trim(lines[i])
    IN  IF ~IsAllDigits(indexLine)
        THEN Throw(<<"Invalid subtitle index at line ", ToString(i),
                     " (expected number)">>)
        ELSE LET index == parseInt(indexLine)
             IN  IF i + 1 > Len(lines)
                 THEN Throw(<<"Missing timestamp for subtitle ", ToString(index)>>)
                 ELSE LET timestampLine == trim(lines[i + 1])
                      IN  IF ~IsSRTTimestampLine(timestampLine)
                          THEN Throw(<<"Invalid timestamp format for subtitle ",
                                       ToString(index)>>)
                          ELSE LET \* timestampLine.split(/\s*-->\s*/) of a line
                                   \* the regular expression accepted
                                   startTime == SubSeq(timestampLine, 1, 12)
                                   endTime == SubSeq(timestampLine,
                                                     Len(timestampLine) - 11,
                                                     Len(timestampLine))
                                   body == CollectText(lines, i + 2, <<>>)
                               IN  IF ~body.ok THEN body
                                   ELSE IF \A k \in 1..Len(body.val.textLines) :
                                              trim(body.val.textLines[k]) = <<>>
                                   THEN Throw(<<"No text content found for subtitle ",
                                                ToString(index)>>)
                                   ELSE Ok([next |-> body.val.next,
                                            subtitle |->
                                              [t |-> "object",
                                               index |-> index,
                                               startTime |-> Str(trim(startTime)),
                                               endTime |-> Str(trim(endTime)),
                                               text |-> Str(trim(join(body.val.textLines,
                                                                      <<LF>>)))]])

\* a slip: each record is put before the records found so far
RECURSIVE ParseBlocksPrepending(_, _, _)
ParseBlocksPrepending(lines, i, subtitles) ==
    LET j == SkipEmptyLines(lines, i)
    IN  IF j > Len(lines) THEN Ok(subtitles)
        ELSE LET b == ParseBlock(lines, j)
             IN  IF ~b.ok THEN b
                 ELSE ParseBlocksPrepending(lines, b.val.next,
                                            <<b.val.subtitle>> \o subtitles)

\* The outer loop (srt-parser.js:42-117) from line i with the records so far.
RECURSIVE ParseBlocks(_, _, _)
ParseBlocks(lines, i, subtitles) ==
    LET j == SkipEmptyLines(lines, i)
    IN  IF j > Len(lines) THEN Ok(subtitles)
        ELSE LET b == ParseBlock(lines, j)
             IN  IF ~b.ok THEN b
                 ELSE ParseBlocks(lines, b.val.next, Append(subtitles, b.val.subtitle))

\* the end of parseSRTInternal (srt-parser.js:119-123) for the result r of
\* the loop over the blocks
AtLeastOneBlock(r) ==
    IF ~r.ok THEN r
    ELSE IF r.val = <<>> THEN Throw(<<"No valid subtitle blocks found">>)
    ELSE r

\* parseSRTInternal(content) for a string
parseSRTInternal(content) == AtLeastOneBlock(ParseBlocks(SRTLines(content), 1, <<>>))

\* the catch of parseSRT (srt-parser.js:135-137) for the result r of the try
RethrowInvalid(r) == IF r.ok THEN r ELSE Throw(<<"Invalid SRT format: ">> \o r.err)

\* parseSRT(content): every failure, the TypeError of content.replace on a
\* value that is no string included, is rethrown as 'Invalid SRT format: ...'
parseSRT(content) ==
    RethrowInvalid(IF IsString(content) THEN parseSRTInternal(content.s)
                   ELSE Throw(<<"TypeError">>))

\* a slip: only the first block is looked at
validateSRTFormatFirstBlock(content) ==
    IF Falsy(content) \/ ~IsString(content) THEN FALSE
    ELSE LET lines == SRTLines(content.s)
             j == SkipEmptyLines(lines, 1)
         IN  j <= Len(lines) /\ ParseBlock(lines, j).ok

\* validateSRTFormat(content)
validateSRTFormat(content) ==
    IF Falsy(content) \/ ~IsString(content) THEN FALSE
    ELSE parseSRTInternal(content.s).ok

\* parseTimestamp(timestamp): ^(\d{2}):(\d{2}):(\d{2}),(\d{3})$; timestamp.match
\* raises a TypeError on a value that is no string
parseTimestamp(timestamp) ==
    IF ~IsString(timestamp) THEN Throw(<<"TypeError">>)
    ELSE IF Len(timestamp.s) = 12 /\ MatchTimestampAt(timestamp.s, 1, ",", FALSE)
    THEN Ok([hours |-> parseInt(SubSeq(timestamp.s, 1, 2)),
             minutes |-> parseInt(SubSeq(timestamp.s, 4, 5)),
             seconds |-> parseInt(SubSeq(timestamp.s, 7, 8)),
             milliseconds |-> parseInt(SubSeq(timestamp.s, 10, 12))])
    ELSE Throw(<<"Invalid timestamp format: ", "Expected format: HH:MM:SS,mmm">>)

(***************************************************************************)
(* utils/vtt-generator.js                                                  *)
(***************************************************************************)
\* a slip: the separator is left as it is
ReplaceFirstCommaKept(s) == s

\* s.replace(',', '.'): the first comma only
RECURSIVE ReplaceFirstComma(_)
ReplaceFirstComma(s) ==
    IF s = <<>> THEN <<>>
    ELSE IF Head(s) = "," THEN <<".">> \o Tail(s)
    ELSE <<Head(s)>> \o ReplaceFirstComma(Tail(s))

\* a slip: the parser's expression, without the range of minutes and seconds
IsConvertibleTimestampUnranged(s) == Len(s) = 12 /\ MatchTimestampAt(s, 1, ",", FALSE)

\* /^(\d{2}):([0-5]\d):([0-5]\d),(\d{3})$/ matches s
IsConvertibleTimestamp(s) == Len(s) = 12 /\ MatchTimestampAt(s, 1, ",", TRUE)

\* convertTimestamp(srtTimestamp)
convertTimestamp(srtTimestamp) ==
    IF Falsy(srtTimestamp) \/ ~IsString(srtTimestamp)
    THEN Throw(<<"Invalid timestamp: must be a non-empty string">>)
    ELSE IF ~IsConvertibleTimestamp(srtTimestamp.s)
    THEN Throw(<<"Invalid SRT timestamp format: ", "Expected format: HH:MM:SS,mmm">>)
    ELSE Ok(ReplaceFirstComma(srtTimestamp.s))

\* `${text}` of a value that is not undefined
TemplateText(v) ==
    CASE v.t = "string" -> v.s
      [] v.t = "null" -> <<"n", "u", "l", "l">>
      [] v.t = "number" -> <<"5">>
      [] OTHER -> <<"u", "n", "d", "e", "f", "i", "n", "e", "d">>

WEBVTTHeader == <<"W", "E", "B", "V", "T", "T">>

Arrow == <<" ", "-", "-", ">", " ">>

\* a slip: the cue keeps the sequence number of the SRT block
GenerateCueWithIndex(subtitle, index) ==
    IF subtitle.t # "object" \/ Falsy(subtitle.startTime) \/ Falsy(subtitle.endTime)
       \/ subtitle.text.t = "undefined"
       \/ ~convertTimestamp(subtitle.startTime).ok
       \/ ~convertTimestamp(subtitle.endTime).ok
    THEN Throw(<<"Error processing subtitle at index ", ToString(index)>>)
    ELSE Ok(<<"7", LF>> \o convertTimestamp(subtitle.startTime).val \o Arrow
            \o convertTimestamp(subtitle.endTime).val \o <<LF>>
            \o TemplateText(subtitle.text) \o <<LF, LF>>)

\* The callback of subtitles.forEach (vtt-generator.js:48-74) on the element
\* at array index `index`: the text it appends to vttContent, or the error.
GenerateCue(subtitle, index) ==
    IF subtitle.t # "object"
    THEN Throw(<<"Invalid subtitle object at index ", ToString(index)>>)
    ELSE IF \/ Falsy(subtitle.startTime)
            \/ Falsy(subtitle.endTime)
            \/ subtitle.text.t = "undefined"
    THEN Throw(<<"Missing required fields in subtitle at index ", ToString(index),
                 ". Required: startTime, endTime, text">>)
    ELSE LET vttStartTime == convertTimestamp(subtitle.startTime)
             vttEndTime == convertTimestamp(subtitle.endTime)
         IN  IF ~vttStartTime.ok
             THEN Throw(<<"Error processing subtitle at index ", ToString(index), ": ">>
                        \o vttStartTime.err)
             ELSE IF ~vttEndTime.ok
             THEN Throw(<<"Error processing subtitle at index ", ToString(index), ": ">>
                        \o vttEndTime.err)
             ELSE Ok(vttStartTime.val \o Arrow \o vttEndTime.val \o <<LF>>
                     \o TemplateText(subtitle.text) \o <<LF, LF>>)

\* a slip: an element that cannot be processed is skipped, the rest is emitted
RECURSIVE GenerateFromSkipping(_, _, _)
GenerateFromSkipping(a, k, vttContent) ==
    IF k > Len(a) THEN Ok(vttContent)
    ELSE LET cue == GenerateCue(a[k], k - 1)
         IN  GenerateFromSkipping(a, k + 1,
                                  IF cue.ok THEN vttContent \o cue.val ELSE vttContent)

\* subtitles.forEach from the element at position k (1-based) on, with the
\* content built so far; a throw leaves forEach and generateVTT at once
RECURSIVE GenerateFrom(_, _, _)
GenerateFrom(a, k, vttContent) ==
    IF k > Len(a) THEN Ok(vttContent)
    ELSE LET cue == GenerateCue(a[k], k - 1)
         IN  IF ~cue.ok THEN cue
             ELSE GenerateFrom(a, k + 1, vttContent \o cue.val)

\* generateVTT(subtitles)
generateVTT(subtitles) ==
    IF subtitles.t # "array"
    THEN Throw(<<"Invalid input: subtitles must be an array">>)
    ELSE IF subtitles.a = <<>>
    THEN Throw(<<"No subtitles provided for VTT generation">>)
    ELSE GenerateFrom(subtitles.a, 1, WEBVTTHeader \o <<LF, LF>>)

\* The sequence-number loop of validateVTTFormat (vtt-generator.js:114-123)
\* over the lines of content.split('\n'); i = 2 there is position 3 here.
\* Every timestampRegex.test that fails leaves lastIndex at 0 and the first
\* one that succeeds ends the loop, so the /g flag carries nothing over.
HasSequenceNumber(lines) ==
    \E i \in 3..Len(lines) :
        /\ IsAllDigits(trim(lines[i]))
        /\ i + 1 <= Len(lines)
        /\ HasVTTTimestampPair(lines[i + 1])

MsgNotString == "Invalid VTT content: must be a non-empty string"

MsgBOM == "VTT content must not contain BOM (Byte Order Mark)"

MsgHeader == "VTT content must start with \"WEBVTT\" header followed by newline"

MsgEmptyLine == "VTT content must have empty line after WEBVTT header"

MsgNoTimestamps == "No valid VTT timestamps found in content"

MsgSequenceNumbers ==
    "VTT content must not contain subtitle sequence numbers for Bunny Stream compatibility"

\* a slip: the header is looked at before the byte-order mark
validateVTTFormatHeaderFirst(vttContent) ==
    IF Falsy(vttContent) \/ ~IsString(vttContent) THEN Throw(<<MsgNotString>>)
    ELSE LET s == vttContent.s
         IN  IF ~startsWith(s, WEBVTTHeader \o <<LF>>) THEN Throw(<<MsgHeader>>)
             ELSE IF s[1] = BOM THEN Throw(<<MsgBOM>>)
             ELSE IF ~startsWith(s, WEBVTTHeader \o <<LF, LF>>) THEN Throw(<<MsgEmptyLine>>)
             ELSE IF ~HasVTTTimestampPair(s) THEN Throw(<<MsgNoTimestamps>>)
             ELSE IF HasSequenceNumber(split(s, LF)) THEN Throw(<<MsgSequenceNumbers>>)
             ELSE Ok(TRUE)

\* validateVTTFormat(vttContent)
validateVTTFormat(vttContent) ==
    IF Falsy(vttContent) \/ ~IsString(vttContent) THEN Throw(<<MsgNotString>>)
    ELSE LET s == vttContent.s
         IN  IF s[1] = BOM THEN Throw(<<MsgBOM>>)
             ELSE IF ~startsWith(s, WEBVTTHeader \o <<LF>>) THEN Throw(<<MsgHeader>>)
             ELSE IF ~startsWith(s, WEBVTTHeader \o <<LF, LF>>) THEN Throw(<<MsgEmptyLine>>)
             ELSE IF ~HasVTTTimestampPair(s) THEN Throw(<<MsgNoTimestamps>>)
             ELSE IF HasSequenceNumber(split(s, LF)) THEN Throw(<<MsgSequenceNumbers>>)
             ELSE Ok(TRUE)

\* vttContent.split(/\r?\n/): the pieces between line feeds, each piece that a
\* line feed follows without its last carriage return
SplitLines(s) ==
    LET pieces == split(s, LF)
    IN  [i \in 1..Len(pieces) |->
            IF i < Len(pieces) /\ pieces[i] # <<>> /\ pieces[i][Len(pieces[i])] = CR
            THEN SubSeq(pieces[i], 1, Len(pieces[i]) - 1)
            ELSE pieces[i]]

\* Buffer.from(s, 'utf8').toString('utf8'): a lone surrogate is encoded as
\* EF BF BD and comes back as U+FFFD
Utf8RoundTrip(s) == [i \in 1..Len(s) |-> IF s[i] = LONE THEN "<FFFD>" ELSE s[i]]

MsgCRLF ==
    "Content contains Windows line endings (CRLF). Unix line endings (LF) are recommended."

MsgTab == "Content contains tab characters. Spaces are recommended for indentation."

MsgHeaderSpace == "WEBVTT header should not have leading or trailing whitespace."

CheckNames ==
    {"hasWebVTTHeader", "hasEmptyLineAfterHeader", "noBOM", "noSequenceNumbers",
     "validTimestamps", "properEncoding"}

\* a check of the compliance map: true, false, or the null that
\* `timestamps && timestamps.length > 0` yields when match finds nothing
Bool(b) == IF b THEN "true" ELSE "false"

\* a slip: the strict validator is not consulted
ComplianceErrorsNone(vttContent) == <<>>

\* the messages validateBunnyStreamCompliance collects for a string
\* (vtt-generator.js:196-201): the message of the strict validator, if it throws
ComplianceErrors(vttContent) ==
    LET strict == validateVTTFormat(vttContent)
    IN  IF strict.ok THEN <<>> ELSE strict.err

\* validateBunnyStreamCompliance(vttContent)
validateBunnyStreamCompliance(vttContent) ==
    IF ~IsString(vttContent)
    THEN \* vttContent.charCodeAt raises a TypeError, caught at line 206
         [isValid |-> FALSE,
          compliance |-> [n \in CheckNames |-> "false"],
          errors |-> <<"TypeError">>,
          warnings |-> <<>>]
    ELSE LET s == vttContent.s
             lines == SplitLines(s)
             compliance ==
                 [noBOM |-> Bool(s = <<>> \/ s[1] # BOM),
                  hasWebVTTHeader |->
                      Bool(\/ startsWith(s, WEBVTTHeader \o <<LF>>)
                           \/ startsWith(s, WEBVTTHeader \o <<CR, LF>>)),
                  hasEmptyLineAfterHeader |->
                      Bool(\/ startsWith(s, WEBVTTHeader \o <<LF, LF>>)
                           \/ startsWith(s, WEBVTTHeader \o <<CR, LF, CR, LF>>)),
                  properEncoding |-> Bool(Utf8RoundTrip(s) = s),
                  validTimestamps |-> IF HasVTTTimestampPair(s) THEN "true" ELSE "null",
                  noSequenceNumbers |-> Bool(~HasSequenceNumber(lines))]
             warnings ==
                 (IF includes(s, <<CR, LF>>) THEN <<MsgCRLF>> ELSE <<>>)
                 \o (IF includes(s, <<TAB>>) THEN <<MsgTab>> ELSE <<>>)
                 \o (IF lines[1] # WEBVTTHeader THEN <<MsgHeaderSpace>> ELSE <<>>)
             errors == ComplianceErrors(vttContent)
         IN  [isValid |-> (\A n \in CheckNames : compliance[n] = "true") /\ errors = <<>>,
              compliance |-> compliance,
              errors |-> errors,
              warnings |-> warnings]

(***************************************************************************)
(* utils/encoding.js.  A buffer is a sequence of bytes, a decoded string a *)
(* sequence of code points.  The conversions of iconv-lite are modelled by *)
(* what they do: the UTF-8 decoder replaces every maximal ill-formed part  *)
(* by U+FFFD, and iconv.decode removes one leading U+FEFF from what a      *)
(* BOM-aware codec (utf8) decoded.                                         *)
(***************************************************************************)
ReplacementChar == 65533

BOMChar == 65279

\* U+00C3, the marker of the repair
ATilde == 195

\* the UTF-8 encoding of U+FEFF
UTF8BOM == <<239, 187, 191>>

\* byte j of b exists and lies in lo..hi
ByteIn(b, j, lo, hi) == j <= Len(b) /\ b[j] >= lo /\ b[j] <= hi

\* One step of the UTF-8 decoder at position i of b: the code point and the
\* position of the next step.  An ill-formed sequence yields U+FFFD and ends
\* before the byte that broke it.
Utf8DecodeStep(b, i) ==
    LET b0 == b[i]
        lo2 == IF b0 = 224 THEN 160 ELSE IF b0 = 240 THEN 144 ELSE 128
        hi2 == IF b0 = 237 THEN 159 ELSE IF b0 = 244 THEN 143 ELSE 191
        bad(n) == [cp |-> ReplacementChar, next |-> n]
    IN  IF b0 < 128 THEN [cp |-> b0, next |-> i + 1]
        ELSE IF b0 >= 194 /\ b0 <= 223
        THEN IF ByteIn(b, i + 1, 128, 191)
             THEN [cp |-> (b0 - 192) * 64 + (b[i + 1] - 128), next |-> i + 2]
             ELSE bad(i + 1)
        ELSE IF b0 >= 224 /\ b0 <= 239
        THEN IF ~ByteIn(b, i + 1, lo2, hi2) THEN bad(i + 1)
             ELSE IF ~ByteIn(b, i + 2, 128, 191) THEN bad(i + 2)
             ELSE [cp |-> (b0 - 224) * 4096 + (b[i + 1] - 128) * 64 + (b[i + 2] - 128),
                   next |-> i + 3]
        ELSE IF b0 >= 240 /\ b0 <= 244
        THEN IF ~ByteIn(b, i + 1, lo2, hi2) THEN bad(i + 1)
             ELSE IF ~ByteIn(b, i + 2, 128, 191) THEN bad(i + 2)
             ELSE IF ~ByteIn(b, i + 3, 128, 191) THEN bad(i + 3)
             ELSE [cp |-> (b0 - 240) * 262144 + (b[i + 1] - 128) * 4096
                            + (b[i + 2] - 128) * 64 + (b[i + 3] - 128),
                   next |-> i + 4]
        ELSE bad(i + 1)

RECURSIVE Utf8DecodeFrom(_, _)
Utf8DecodeFrom(b, i) ==
    IF i > Len(b) THEN <<>>
    ELSE <<Utf8DecodeStep(b, i).cp>> \o Utf8DecodeFrom(b, Utf8DecodeStep(b, i).next)

\* the bytes of b decoded as UTF-8
Utf8Decode(b) == Utf8DecodeFrom(b, 1)

\* the UTF-8 encoding of one code point
Utf8EncodeChar(cp) ==
    IF cp < 128 THEN <<cp>>
    ELSE IF cp < 2048 THEN <<192 + (cp \div 64), 128 + (cp % 64)>>
    ELSE IF cp < 65536
    THEN <<224 + (cp \div 4096), 128 + ((cp \div 64) % 64), 128 + (cp % 64)>>
    ELSE <<240 + (cp \div 262144), 128 + ((cp \div 4096) % 64),
           128 + ((cp \div 64) % 64), 128 + (cp % 64)>>

RECURSIVE Utf8Encode(_)
Utf8Encode(text) ==
    IF text = <<>> THEN <<>> ELSE Utf8EncodeChar(text[1]) \o Utf8Encode(Tail(text))

\* windows-1252: the code points of the bytes 0x80-0x9F; five of them are
\* undefined and decode to U+FFFD
Windows1252High ==
    <<8364, ReplacementChar, 8218, 402, 8222, 8230, 8224, 8225,
      710, 8240, 352, 8249, 338, ReplacementChar, 381, ReplacementChar,
      ReplacementChar, 8216, 8217, 8220, 8221, 8226, 8211, 8212,
      732, 8482, 353, 8250, 339, ReplacementChar, 382, 376>>

Windows1252Decode(b) ==
    [i \in 1..Len(b) |-> IF b[i] >= 128 /\ b[i] <= 159 THEN Windows1252High[b[i] - 127]
                         ELSE b[i]]

\* iso-8859-1: every byte is its code point
Latin1Decode(b) == b

\* iconv.encode(text, 'latin1'): a character outside the code page becomes
\* '?', one for each of its UTF-16 code units
Latin1EncodeChar(cp) ==
    IF cp <= 255 THEN <<cp>> ELSE IF cp < 65536 THEN <<63>> ELSE <<63, 63>>

RECURSIVE Latin1Encode(_)
Latin1Encode(text) ==
    IF text = <<>> THEN <<>> ELSE Latin1EncodeChar(text[1]) \o Latin1Encode(Tail(text))

\* the encoding names the callers use; iconv-lite knows every one of them
\* but the last
NoEncoding == "null"

EncodingNames == {"utf8", "iso-8859-1", "windows-1252", "invalid-encoding"}

\* iconv.decode(buffer, encoding); an unknown name throws
iconvDecode(b, encoding) ==
    CASE encoding = "utf8" ->
             LET text == Utf8Decode(b)
             IN  Ok(IF text # <<>> /\ text[1] = BOMChar THEN Tail(text) ELSE text)
      [] encoding = "iso-8859-1" -> Ok(Latin1Decode(b))
      [] encoding = "windows-1252" -> Ok(Windows1252Decode(b))
      [] OTHER -> Throw(<<"Encoding not recognized: '", encoding, "'">>)

\* decoded.includes('\uFFFD')
HasReplacement(text) == \E i \in 1..Len(text) : text[i] = ReplacementChar

Buffer(b) == [t |-> "buffer", b |-> b]

NullBuffer == [t |-> "null", b |-> <<>>]

\* an indicator list that holds the whole range 0x80-0x9F
Win1252CharsWholeRange == 128..159

\* the bytes of the 0x80-0x9F range that count as Windows-1252 indicators
Win1252Chars ==
    {128, 130, 131, 132, 133, 134, 135, 136, 137, 138, 139, 140, 142, 145, 146, 147,
     148, 149, 150, 151, 152, 153, 154, 155, 156, 158, 159}

\* a detector that never looks at the bytes
detectEncodingAlwaysUTF8(buffer) == "utf8"

\* detectEncoding(buffer)
detectEncoding(buffer) ==
    LET b == buffer.b
        hasHighBytes == \E i \in 1..Len(b) : b[i] > 127
        windows1252Indicators == Cardinality({i \in 1..Len(b) : b[i] \in Win1252Chars})
        iso88591Indicators == Cardinality({i \in 1..Len(b) : b[i] >= 160 /\ b[i] <= 255})
        win1252Test == Windows1252Decode(b)
        iso88591Test == Latin1Decode(b)
    IN  IF buffer.t # "buffer" \/ b = <<>> THEN "utf8"
        ELSE IF Len(b) >= 3 /\ SubSeq(b, 1, 3) = UTF8BOM THEN "utf8"
        ELSE IF Len(b) >= 2 /\ (SubSeq(b, 1, 2) = <<255, 254>> \/ SubSeq(b, 1, 2) = <<254, 255>>)
        THEN "utf8"
        ELSE IF ~HasReplacement(iconvDecode(b, "utf8").val) THEN "utf8"
        ELSE IF ~hasHighBytes THEN "utf8"
        ELSE IF windows1252Indicators > 0 THEN "windows-1252"
        ELSE IF iso88591Indicators > 0
        THEN IF HasReplacement(win1252Test) /\ ~HasReplacement(iso88591Test) THEN "iso-8859-1"
             ELSE IF ~HasReplacement(win1252Test) /\ ~HasReplacement(iso88591Test)
             THEN "windows-1252"
             ELSE "iso-8859-1"
        ELSE "iso-8859-1"

\* fixDoubleEncodedUTF8(text)
fixDoubleEncodedUTF8(text) ==
    IF \A i \in 1..Len(text) : text[i] # ATilde THEN text
    ELSE LET originalBytes == Latin1Encode(text)
             fixedText == iconvDecode(originalBytes, "utf8").val
         IN  IF fixedText = text \/ \E i \in 1..Len(fixedText) : fixedText[i] = ATilde
             THEN text
             ELSE fixedText

\* buffer with one leading UTF-8 byte-order mark removed, if it has one
SliceBOM(b) == IF Len(b) >= 3 /\ SubSeq(b, 1, 3) = UTF8BOM THEN SubSeq(b, 4, Len(b)) ELSE b

\* convertToUTF8 without its try/catch: a failed decode propagates
convertToUTF8Uncaught(buffer, encoding) ==
    IF buffer.t # "buffer" \/ buffer.b = <<>> THEN Ok(<<>>)
    ELSE LET sourceEncoding == IF encoding # NoEncoding THEN encoding
                               ELSE detectEncoding(buffer)
             decoded == iconvDecode(buffer.b, sourceEncoding)
         IN  IF decoded.ok
             THEN Ok(SliceBOM(Utf8Encode(fixDoubleEncodedUTF8(decoded.val))))
             ELSE decoded

\* convertToUTF8(buffer, encoding): the buffer it returns
convertToUTF8(buffer, encoding) ==
    IF buffer.t # "buffer" \/ buffer.b = <<>> THEN Ok(<<>>)
    ELSE LET sourceEncoding == IF encoding # NoEncoding THEN encoding
                               ELSE detectEncoding(buffer)
             decoded == iconvDecode(buffer.b, sourceEncoding)
         IN  IF decoded.ok
             THEN Ok(SliceBOM(Utf8Encode(fixDoubleEncodedUTF8(decoded.val))))
             ELSE \* the catch block: the input, taken as UTF-8
                  Ok(SliceBOM(buffer.b))

(***************************************************************************)
(* The older variant of utils/encoding.js repairs by a table of broken     *)
(* sequences.  The table is an object literal: its entries are visited in  *)
(* the order of the first occurrence of each key, with the value of the    *)
(* last occurrence.                                                        *)
(***************************************************************************)
Replacements ==
    << <<<<195, 164>>, <<228>>>>,
       <<<<195, 182>>, <<246>>>>,
       <<<<195, 188>>, <<252>>>>,
       <<<<195, 8222>>, <<196>>>>,
       <<<<195, 8211>>, <<214>>>>,
       <<<<195, 339>>, <<220>>>>,
       <<<<195, 376>>, <<223>>>>,
       <<<<195, 169>>, <<233>>>>,
       <<<<195, 168>>, <<232>>>>,
       <<<<195, 32>>, <<224>>>>,
       <<<<195, 162>>, <<226>>>>,
       <<<<195, 167>>, <<231>>>>,
       <<<<195, 177>>, <<241>>>>,
       <<<<195, 161>>, <<225>>>>,
       <<<<195, 173>>, <<237>>>>,
       <<<<195, 179>>, <<243>>>>,
       <<<<195, 186>>, <<250>>>>,
       <<<<195, 8364>>, <<192>>>>,
       <<<<195, 8240>>, <<201>>>>,
       <<<<195, 710>>, <<200>>>>,
       <<<<195, 8218>>, <<194>>>>,
       <<<<195, 352>>, <<202>>>>,
       <<<<195, 180>>, <<244>>>>,
       <<<<195, 174>>, <<238>>>>,
       <<<<195, 175>>, <<239>>>>,
       <<<<195, 171>>, <<235>>>>,
       <<<<226, 8364, 8482>>, <<39>>>>,
       <<<<226, 8364, 339>>, <<34>>>>,
       <<<<226, 8364, 65533>>, <<34>>>>,
       <<<<226, 8364, 34>>, <<8211>>>>,
       <<<<226, 8364, 166>>, <<8230>>>>,
       <<<<195>>, <<223>>>>,
       <<<<195, 402, 194, 164>>, <<228>>>>,
       <<<<195, 402, 194, 182>>, <<246>>>>,
       <<<<195, 402, 194, 188>>, <<252>>>>,
       <<<<195, 402, 197, 184>>, <<223>>>>,
       <<<<195, 162, 226, 8218, 172, 197, 34>>, <<34>>>>,
       <<<<195, 162, 226, 8218, 172, 239, 191, 189>>, <<34>>>>,
       <<<<195, 162, 226, 8218, 172, 226, 8222, 162>>, <<39>>>>,
       <<<<195, 162, 226, 8218, 172, 226, 8364, 339>>, <<8211>>>>,
       <<<<195, 162, 226, 8218, 172, 226, 8364, 65533>>, <<8212>>>> >>

\* pat occurs in text at position i
OccursAt(text, i, pat) ==
    i + Len(pat) - 1 <= Len(text) /\ SubSeq(text, i, i + Len(pat) - 1) = pat

\* text.includes(pat)
IncludesSeq(text, pat) == \E i \in 1..Len(text) : OccursAt(text, i, pat)

\* text.replace(new RegExp(pat, 'g'), rep) from position i on
RECURSIVE ReplaceAllFrom(_, _, _, _)
ReplaceAllFrom(text, i, pat, rep) ==
    IF i > Len(text) THEN <<>>
    ELSE IF OccursAt(text, i, pat) THEN rep \o ReplaceAllFrom(text, i + Len(pat), pat, rep)
    ELSE <<text[i]>> \o ReplaceAllFrom(text, i + 1, pat, rep)

\* the loop over Object.entries(replacements), from entry k on; an entry
\* that does not occur leaves the text as it is
RECURSIVE ApplyReplacementsFrom(_, _)
ApplyReplacementsFrom(text, k) ==
    IF k > Len(Replacements) THEN text
    ELSE IF ~IncludesSeq(text, Replacements[k][1]) THEN ApplyReplacementsFrom(text, k + 1)
    ELSE ApplyReplacementsFrom(
             ReplaceAllFrom(text, 1, Replacements[k][1], Replacements[k][2]), k + 1)

\* fixDoubleEncodedUTF8(text) of the older variant: one pass over the table,
\* and another round while the pass changed the text and left a marker
RECURSIVE fixDoubleEncodedUTF8Table(_)
fixDoubleEncodedUTF8Table(text) ==
    LET fixed == ApplyReplacementsFrom(text, 1)
    IN  IF fixed # text /\ (IncludesSeq(fixed, <<195>>) \/ IncludesSeq(fixed, <<226, 8364>>))
        THEN fixDoubleEncodedUTF8Table(fixed)
        ELSE fixed

(***************************************************************************)
(* utils/vtt-generator.js, generateBase64Output.  The string is encoded as *)
(* UTF-8 bytes, the bytes as Base64 characters.                            *)
(***************************************************************************)
\* the characters U+0020 to U+007E in the order of their codes (the grave
\* accent U+0060 is written <0060>)
PrintableASCII ==
    <<
      " ", "!", "\"", "#", "$", "%", "&", "'", "(", ")", "*", "+", ",", "-", ".", "/",
      "0", "1", "2", "3", "4", "5", "6", "7", "8", "9", ":", ";", "<", "=", ">", "?",
      "@", "A", "B", "C", "D", "E", "F", "G", "H", "I", "J", "K", "L", "M", "N", "O",
      "P", "Q", "R", "S", "T", "U", "V", "W", "X", "Y", "Z", "[", "\\", "]", "^", "_",
      "<0060>", "a", "b", "c", "d", "e", "f", "g", "h", "i", "j", "k", "l", "m", "n", "o",
      "p", "q", "r", "s", "t", "u", "v", "w", "x", "y", "z", "{", "|", "}", "~" >>

\* u-umlaut, one UTF-16 code unit with a UTF-8 encoding of two bytes
UUML == "<00FC>"

\* String.prototype.charCodeAt for one character of the model
charCode(c) ==
    CASE c = LF -> 10
      [] c = CR -> 13
      [] c = TAB -> 9
      [] c = UUML -> 252
      [] c = LONE -> 55296
      [] c = BOM -> 65279
      [] c = "<FFFD>" -> 65533
      [] OTHER -> 31 + (CHOOSE k \in 1..Len(PrintableASCII) : PrintableASCII[k] = c)

\* the UTF-16 code units of a string
CodeUnits(s) == SubSeq([i \in 1..Len(s) |-> charCode(s[i])], 1, Len(s))

IsSurrogate(cu) == InRange(cu, 55296, 57343)

\* the bytes one code unit gives in Buffer.from(s, 'utf8'): an unpaired
\* surrogate is written as U+FFFD (the strings of the model hold no pairs)
Utf8BytesOfUnit(cu) == IF IsSurrogate(cu) THEN <<239, 191, 189>> ELSE Utf8EncodeChar(cu)

\* Buffer.from(s, 'latin1'): the low byte of every code unit
BufferFromLatin1(s) == SubSeq([i \in 1..Len(s) |-> charCode(s[i]) % 256], 1, Len(s))

\* Buffer.from(s, 'utf8')
BufferFromUtf8(s) ==
    LET units == CodeUnits(s)
        \* where the bytes of code unit i start
        offset == SubSeq([i \in 1..Len(s) |->
                      i + Cardinality({k \in 1..(i - 1) : units[k] >= 128})
                        + Cardinality({k \in 1..(i - 1) : units[k] >= 2048})], 1, Len(s))
        total  == IF s = <<>> THEN 0
                  ELSE offset[Len(s)] + Len(Utf8BytesOfUnit(units[Len(s)])) - 1
        unitAt == SubSeq([j \in 1..total |->
                      CHOOSE i \in 1..Len(s) :
                          offset[i] <= j /\ (i = Len(s) \/ j < offset[i + 1])], 1, total)
    IN  SubSeq([j \in 1..total |->
                   Utf8BytesOfUnit(units[unitAt[j]])[j - offset[unitAt[j]] + 1]], 1, total)

\* the Base64 alphabet, the character of value v at position v + 1
Base64Alphabet ==
    <<
      "A", "B", "C", "D", "E", "F", "G", "H", "I", "J", "K", "L", "M", "N", "O", "P",
      "Q", "R", "S", "T", "U", "V", "W", "X", "Y", "Z", "a", "b", "c", "d", "e", "f",
      "g", "h", "i", "j", "k", "l", "m", "n", "o", "p", "q", "r", "s", "t", "u", "v",
      "w", "x", "y", "z", "0", "1", "2", "3", "4", "5", "6", "7", "8", "9", "+", "/" >>

Base64Pad == "="

\* buffer.toString('base64'): every three bytes give four characters of six
\* bits each, a last group of one or two bytes is filled with '='
Base64Encode(bytes) ==
    LET n == Len(bytes)
        ByteAt(j) == IF j <= n THEN bytes[j] ELSE 0
        CharAt(i) ==
            LET g  == (i - 1) \div 4
                b0 == ByteAt((3 * g) + 1)
                b1 == ByteAt((3 * g) + 2)
                b2 == ByteAt((3 * g) + 3)
            IN  CASE (i - 1) % 4 = 0 -> Base64Alphabet[(b0 \div 4) + 1]
                  [] (i - 1) % 4 = 1 -> Base64Alphabet[((b0 % 4) * 16) + (b1 \div 16) + 1]
                  [] (i - 1) % 4 = 2 ->
                         IF (3 * g) + 2 > n THEN Base64Pad
                         ELSE Base64Alphabet[((b1 % 16) * 4) + (b2 \div 64) + 1]
                  [] OTHER ->
                         IF (3 * g) + 3 > n THEN Base64Pad
                         ELSE Base64Alphabet[(b2 % 64) + 1]
    IN  SubSeq([i \in 1..(4 * ((n + 2) \div 3)) |-> CharAt(i)], 1, 4 * ((n + 2) \div 3))

\* Buffer.from(content, 'base64') for a padded content
Base64Decode(content) ==
    LET pads == Cardinality({i \in 1..Len(content) : content[i] = Base64Pad})
        n    == (3 * (Len(content) \div 4)) - pads
        Value(i) == IF content[i] = Base64Pad THEN 0
                    ELSE (CHOOSE v \in 1..64 : Base64Alphabet[v] = content[i]) - 1
        ByteAt(j) ==
            LET g  == (j - 1) \div 3
                v0 == Value((4 * g) + 1)
                v1 == Value((4 * g) + 2)
                v2 == Value((4 * g) + 3)
                v3 == Value((4 * g) + 4)
            IN  CASE (j - 1) % 3 = 0 -> (v0 * 4) + (v1 \div 16)
                  [] (j - 1) % 3 = 1 -> ((v1 % 16) * 16) + (v2 \div 4)
                  [] OTHER -> ((v2 % 4) * 64) + v3
    IN  SubSeq([j \in 1..n |-> ByteAt(j)], 1, n)

MsgBase64 == "Invalid VTT content for Base64 encoding"

\* generateBase64Output with the test of the type inverted
generateBase64OutputOfNoString(vttContent) ==
    IF Falsy(vttContent) \/ IsString(vttContent) THEN Throw(<<MsgBase64>>)
    ELSE Ok([content |-> <<>>, mimeType |-> "text/vtt", charset |-> "utf-8",
             encoding |-> "base64"])

generateBase64Output(vttContent) ==
    IF Falsy(vttContent) \/ ~IsString(vttContent) THEN Throw(<<MsgBase64>>)
    ELSE IF ~validateVTTFormat(vttContent).ok THEN validateVTTFormat(vttContent)
    ELSE LET buffer == BufferFromUtf8(vttContent.s)
             base64Content == Base64Encode(buffer)
         IN  Ok([content  |-> base64Content,
                 mimeType |-> "text/vtt",
                 charset  |-> "utf-8",
                 encoding |-> "base64",
                 size     |-> [original |-> Len(buffer), encoded |-> Len(base64Content)],
                 metadata |-> [format |-> "WebVTT", bunnyStreamCompatible |-> TRUE,
                               encoding |-> "UTF-8 without BOM"]])

(***************************************************************************)
(* utils/language-detection.js.  A text is a sequence of code points.  A   *)
(* confidence is the exact fraction num/den of the number the code         *)
(* computes in floating point.                                             *)
(***************************************************************************)
\* \s and the white space of String.prototype.trim
WhiteSpaceCP ==
    {9, 10, 11, 12, 13, 32, 160, 5760, 8232, 8233, 8239, 8287, 12288, 65279} \cup (8192..8202)

IsSpaceCP(c) == c \in WhiteSpaceCP

IsDigitCP(c) == InRange(c, 48, 57)

\* \w of a regular expression without the u flag
IsWordCP(c) == InRange(c, 48, 57) \/ InRange(c, 65, 90) \/ c = 95 \/ InRange(c, 97, 122)

\* toLowerCase of one character, for the ASCII, Latin-1 and Cyrillic letters
\* (the scripts of the cased characters in LANGUAGE_PATTERNS)
ToLowerCP(c) ==
    IF InRange(c, 65, 90) \/ InRange(c, 192, 214) \/ InRange(c, 216, 222)
           \/ InRange(c, 1040, 1071) THEN c + 32
    ELSE IF InRange(c, 1024, 1039) THEN c + 80
    ELSE IF c = 376 THEN 255
    ELSE c

\* Canonicalize of a regular expression with the i flag and without the u
\* flag: the upper case of the character, for the same scripts; U+00DF has
\* no one-character upper case and stays
Canonicalize(c) ==
    IF InRange(c, 97, 122) \/ InRange(c, 224, 246) \/ InRange(c, 248, 254)
           \/ InRange(c, 1072, 1103) THEN c - 32
    ELSE IF InRange(c, 1104, 1119) THEN c - 80
    ELSE IF c = 255 THEN 376
    ELSE c

\* String.prototype.toLowerCase
toLowerCase(text) == SubSeq([i \in 1..Len(text) |-> ToLowerCP(text[i])], 1, Len(text))

\* String.prototype.trim on code points
TrimCP(text) ==
    IF \A i \in 1..Len(text) : IsSpaceCP(text[i]) THEN <<>>
    ELSE LET first == CHOOSE i \in 1..Len(text) :
                          ~IsSpaceCP(text[i]) /\ \A j \in 1..(i - 1) : IsSpaceCP(text[j])
             last  == CHOOSE i \in 1..Len(text) :
                          ~IsSpaceCP(text[i]) /\ \A j \in (i + 1)..Len(text) : IsSpaceCP(text[j])
         IN  SubSeq(text, first, last)

\* LANGUAGE_PATTERNS, in the order of Object.keys: every pattern is a regular
\* expression with the flags g and i, either \b(w1|w2|...)\b or one character
\* class; words and characters are written as code points.
LANGUAGE_PATTERNS ==
    << [code |-> "en", name |-> "English",
        patterns |-> <<
            \* line 13: \b(the|and|or|but|in|on|at|to|for|of|with|by)\b
            [kind |-> "words", chars |-> {},
             words |-> << <<116, 104, 101>>, <<97, 110, 100>>, <<111, 114>>, <<98, 117, 116>>,
                       <<105, 110>>, <<111, 110>>, <<97, 116>>, <<116, 111>>, <<102, 111, 114>>,
                       <<111, 102>>, <<119, 105, 116, 104>>, <<98, 121>> >>],
            \* line 14: \b(is|are|was|were|have|has|had|will|would|could|should)\b
            [kind |-> "words", chars |-> {},
             words |-> << <<105, 115>>, <<97, 114, 101>>, <<119, 97, 115>>, <<119, 101, 114, 101>>,
                       <<104, 97, 118, 101>>, <<104, 97, 115>>, <<104, 97, 100>>,
                       <<119, 105, 108, 108>>, <<119, 111, 117, 108, 100>>,
                       <<99, 111, 117, 108, 100>>, <<115, 104, 111, 117, 108, 100>> >>],
            \* line 15: \b(this|that|these|those|here|there|where|when|what|who|how|why)\b
            [kind |-> "words", chars |-> {},
             words |-> << <<116, 104, 105, 115>>, <<116, 104, 97, 116>>,
                       <<116, 104, 101, 115, 101>>, <<116, 104, 111, 115, 101>>,
                       <<104, 101, 114, 101>>, <<116, 104, 101, 114, 101>>,
                       <<119, 104, 101, 114, 101>>, <<119, 104, 101, 110>>,
                       <<119, 104, 97, 116>>, <<119, 104, 111>>, <<104, 111, 119>>,
                       <<119, 104, 121>> >>] >>,
        \* line 17: the and to of a in is it you that he was for on are as with his they i
        commonWords |-> << <<116, 104, 101>>, <<97, 110, 100>>, <<116, 111>>, <<111, 102>>,
                           <<97>>, <<105, 110>>, <<105, 115>>, <<105, 116>>, <<121, 111, 117>>,
                           <<116, 104, 97, 116>>, <<104, 101>>, <<119, 97, 115>>,
                           <<102, 111, 114>>, <<111, 110>>, <<97, 114, 101>>, <<97, 115>>,
                           <<119, 105, 116, 104>>, <<104, 105, 115>>, <<116, 104, 101, 121>>,
                           <<105>> >>],
       [code |-> "de", name |-> "German",
        patterns |-> <<
            \* line 22: \b(der|die|das|den|dem|des|ein|eine|einen|einem|einer|eines)\b
            [kind |-> "words", chars |-> {},
             words |-> << <<100, 101, 114>>, <<100, 105, 101>>, <<100, 97, 115>>, <<100, 101, 110>>,
                       <<100, 101, 109>>, <<100, 101, 115>>, <<101, 105, 110>>,
                       <<101, 105, 110, 101>>, <<101, 105, 110, 101, 110>>,
                       <<101, 105, 110, 101, 109>>, <<101, 105, 110, 101, 114>>,
                       <<101, 105, 110, 101, 115>> >>],
            \* line 23: \b(und|oder|aber|in|auf|an|zu|f\u00FCr|von|mit|bei|nach|\u00FCber|unter|vor|hinter)\b
            [kind |-> "words", chars |-> {},
             words |-> << <<117, 110, 100>>, <<111, 100, 101, 114>>, <<97, 98, 101, 114>>,
                       <<105, 110>>, <<97, 117, 102>>, <<97, 110>>, <<122, 117>>,
                       <<102, 252, 114>>, <<118, 111, 110>>, <<109, 105, 116>>, <<98, 101, 105>>,
                       <<110, 97, 99, 104>>, <<252, 98, 101, 114>>, <<117, 110, 116, 101, 114>>,
                       <<118, 111, 114>>, <<104, 105, 110, 116, 101, 114>> >>],
            \* line 24: \b(ist|sind|war|waren|haben|hat|hatte|wird|w\u00FCrde|k\u00F6nnte|sollte)\b
            [kind |-> "words", chars |-> {},
             words |-> << <<105, 115, 116>>, <<115, 105, 110, 100>>, <<119, 97, 114>>,
                       <<119, 97, 114, 101, 110>>, <<104, 97, 98, 101, 110>>, <<104, 97, 116>>,
                       <<104, 97, 116, 116, 101>>, <<119, 105, 114, 100>>,
                       <<119, 252, 114, 100, 101>>, <<107, 246, 110, 110, 116, 101>>,
                       <<115, 111, 108, 108, 116, 101>> >>],
            \* line 25: a character class
            [kind |-> "class", words |-> <<>>,
             chars |-> {223, 228, 246, 252}] >>,
        \* line 27: der die und in den von zu das mit sich des auf f\u00FCr ist im dem nicht ein eine als
        commonWords |-> << <<100, 101, 114>>, <<100, 105, 101>>, <<117, 110, 100>>, <<105, 110>>,
                           <<100, 101, 110>>, <<118, 111, 110>>, <<122, 117>>, <<100, 97, 115>>,
                           <<109, 105, 116>>, <<115, 105, 99, 104>>, <<100, 101, 115>>,
                           <<97, 117, 102>>, <<102, 252, 114>>, <<105, 115, 116>>, <<105, 109>>,
                           <<100, 101, 109>>, <<110, 105, 99, 104, 116>>, <<101, 105, 110>>,
                           <<101, 105, 110, 101>>, <<97, 108, 115>> >>],
       [code |-> "es", name |-> "Spanish",
        patterns |-> <<
            \* line 32: \b(el|la|los|las|un|una|unos|unas|de|del|al)\b
            [kind |-> "words", chars |-> {},
             words |-> << <<101, 108>>, <<108, 97>>, <<108, 111, 115>>, <<108, 97, 115>>,
                       <<117, 110>>, <<117, 110, 97>>, <<117, 110, 111, 115>>,
                       <<117, 110, 97, 115>>, <<100, 101>>, <<100, 101, 108>>, <<97, 108>> >>],
            \* line 33: \b(y|o|pero|en|con|por|para|desde|hasta|sobre|bajo|ante|tras)\b
            [kind |-> "words", chars |-> {},
             words |-> << <<121>>, <<111>>, <<112, 101, 114, 111>>, <<101, 110>>, <<99, 111, 110>>,
                       <<112, 111, 114>>, <<112, 97, 114, 97>>, <<100, 101, 115, 100, 101>>,
                       <<104, 97, 115, 116, 97>>, <<115, 111, 98, 114, 101>>,
                       <<98, 97, 106, 111>>, <<97, 110, 116, 101>>, <<116, 114, 97, 115>> >>],
            \* line 34: \b(es|son|era|eran|tiene|tienen|ten\u00EDa|ser\u00E1|ser\u00EDa|podr\u00EDa|deber\u00EDa)\b
            [kind |-> "words", chars |-> {},
             words |-> << <<101, 115>>, <<115, 111, 110>>, <<101, 114, 97>>, <<101, 114, 97, 110>>,
                       <<116, 105, 101, 110, 101>>, <<116, 105, 101, 110, 101, 110>>,
                       <<116, 101, 110, 237, 97>>, <<115, 101, 114, 225>>,
                       <<115, 101, 114, 237, 97>>, <<112, 111, 100, 114, 237, 97>>,
                       <<100, 101, 98, 101, 114, 237, 97>> >>],
            \* line 35: a character class
            [kind |-> "class", words |-> <<>>,
             chars |-> {225, 233, 237, 241, 243, 250, 252}] >>,
        \* line 37: de la que el en y a es se no te lo le da su por son con para al
        commonWords |-> << <<100, 101>>, <<108, 97>>, <<113, 117, 101>>, <<101, 108>>,
                           <<101, 110>>, <<121>>, <<97>>, <<101, 115>>, <<115, 101>>,
                           <<110, 111>>, <<116, 101>>, <<108, 111>>, <<108, 101>>, <<100, 97>>,
                           <<115, 117>>, <<112, 111, 114>>, <<115, 111, 110>>, <<99, 111, 110>>,
                           <<112, 97, 114, 97>>, <<97, 108>> >>],
       [code |-> "fr", name |-> "French",
        patterns |-> <<
            \* line 42: \b(le|la|les|un|une|des|du|de|d')\b
            [kind |-> "words", chars |-> {},
             words |-> << <<108, 101>>, <<108, 97>>, <<108, 101, 115>>, <<117, 110>>,
                       <<117, 110, 101>>, <<100, 101, 115>>, <<100, 117>>, <<100, 101>>,
                       <<100, 39>> >>],
            \* line 43: \b(et|ou|mais|dans|sur|avec|par|pour|sans|sous|entre|pendant|apr\u00E8s|avant)\b
            [kind |-> "words", chars |-> {},
             words |-> << <<101, 116>>, <<111, 117>>, <<109, 97, 105, 115>>, <<100, 97, 110, 115>>,
                       <<115, 117, 114>>, <<97, 118, 101, 99>>, <<112, 97, 114>>,
                       <<112, 111, 117, 114>>, <<115, 97, 110, 115>>, <<115, 111, 117, 115>>,
                       <<101, 110, 116, 114, 101>>, <<112, 101, 110, 100, 97, 110, 116>>,
                       <<97, 112, 114, 232, 115>>, <<97, 118, 97, 110, 116>> >>],
            \* line 44: \b(est|sont|\u00E9tait|\u00E9taient|a|ont|avait|sera|serait|pourrait|devrait)\b
            [kind |-> "words", chars |-> {},
             words |-> << <<101, 115, 116>>, <<115, 111, 110, 116>>, <<233, 116, 97, 105, 116>>,
                       <<233, 116, 97, 105, 101, 110, 116>>, <<97>>, <<111, 110, 116>>,
                       <<97, 118, 97, 105, 116>>, <<115, 101, 114, 97>>,
                       <<115, 101, 114, 97, 105, 116>>,
                       <<112, 111, 117, 114, 114, 97, 105, 116>>,
                       <<100, 101, 118, 114, 97, 105, 116>> >>],
            \* line 45: a character class
            [kind |-> "class", words |-> <<>>,
             chars |-> {224, 226, 228, 231, 232, 233, 234, 235, 238, 239, 244, 246, 249,
                                251, 252, 255}] >>,
        \* line 47: de le et \u00E0 un il \u00EAtre et en avoir que pour dans ce son une sur avec ne se
        commonWords |-> << <<100, 101>>, <<108, 101>>, <<101, 116>>, <<224>>, <<117, 110>>,
                           <<105, 108>>, <<234, 116, 114, 101>>, <<101, 116>>, <<101, 110>>,
                           <<97, 118, 111, 105, 114>>, <<113, 117, 101>>, <<112, 111, 117, 114>>,
                           <<100, 97, 110, 115>>, <<99, 101>>, <<115, 111, 110>>,
                           <<117, 110, 101>>, <<115, 117, 114>>, <<97, 118, 101, 99>>,
                           <<110, 101>>, <<115, 101>> >>],
       [code |-> "it", name |-> "Italian",
        patterns |-> <<
            \* line 52: \b(il|la|lo|gli|le|un|una|uno|del|della|dello|degli|delle)\b
            [kind |-> "words", chars |-> {},
             words |-> << <<105, 108>>, <<108, 97>>, <<108, 111>>, <<103, 108, 105>>, <<108, 101>>,
                       <<117, 110>>, <<117, 110, 97>>, <<117, 110, 111>>, <<100, 101, 108>>,
                       <<100, 101, 108, 108, 97>>, <<100, 101, 108, 108, 111>>,
                       <<100, 101, 103, 108, 105>>, <<100, 101, 108, 108, 101>> >>],
            \* line 53: \b(e|o|ma|in|su|con|per|da|di|a|tra|fra|durante|dopo|prima)\b
            [kind |-> "words", chars |-> {},
             words |-> << <<101>>, <<111>>, <<109, 97>>, <<105, 110>>, <<115, 117>>,
                       <<99, 111, 110>>, <<112, 101, 114>>, <<100, 97>>, <<100, 105>>, <<97>>,
                       <<116, 114, 97>>, <<102, 114, 97>>, <<100, 117, 114, 97, 110, 116, 101>>,
                       <<100, 111, 112, 111>>, <<112, 114, 105, 109, 97>> >>],
            \* line 54: \b(\u00E8|sono|era|erano|ha|hanno|aveva|sar\u00E0|sarebbe|potrebbe|dovrebbe)\b
            [kind |-> "words", chars |-> {},
             words |-> << <<232>>, <<115, 111, 110, 111>>, <<101, 114, 97>>,
                       <<101, 114, 97, 110, 111>>, <<104, 97>>, <<104, 97, 110, 110, 111>>,
                       <<97, 118, 101, 118, 97>>, <<115, 97, 114, 224>>,
                       <<115, 97, 114, 101, 98, 98, 101>>,
                       <<112, 111, 116, 114, 101, 98, 98, 101>>,
                       <<100, 111, 118, 114, 101, 98, 98, 101>> >>],
            \* line 55: a character class
            [kind |-> "class", words |-> <<>>,
             chars |-> {224, 232, 233, 236, 237, 238, 242, 243, 249}] >>,
        \* line 57: di a da in con su per tra fra la il lo gli le un una uno del della dello
        commonWords |-> << <<100, 105>>, <<97>>, <<100, 97>>, <<105, 110>>, <<99, 111, 110>>,
                           <<115, 117>>, <<112, 101, 114>>, <<116, 114, 97>>, <<102, 114, 97>>,
                           <<108, 97>>, <<105, 108>>, <<108, 111>>, <<103, 108, 105>>,
                           <<108, 101>>, <<117, 110>>, <<117, 110, 97>>, <<117, 110, 111>>,
                           <<100, 101, 108>>, <<100, 101, 108, 108, 97>>,
                           <<100, 101, 108, 108, 111>> >>],
       [code |-> "pt", name |-> "Portuguese",
        patterns |-> <<
            \* line 62: \b(o|a|os|as|um|uma|uns|umas|do|da|dos|das|no|na|nos|nas)\b
            [kind |-> "words", chars |-> {},
             words |-> << <<111>>, <<97>>, <<111, 115>>, <<97, 115>>, <<117, 109>>,
                       <<117, 109, 97>>, <<117, 110, 115>>, <<117, 109, 97, 115>>, <<100, 111>>,
                       <<100, 97>>, <<100, 111, 115>>, <<100, 97, 115>>, <<110, 111>>,
                       <<110, 97>>, <<110, 111, 115>>, <<110, 97, 115>> >>],
            \* line 63: \b(e|ou|mas|em|com|por|para|de|desde|at\u00E9|sobre|sob|entre|durante|ap\u00F3s|antes)\b
            [kind |-> "words", chars |-> {},
             words |-> << <<101>>, <<111, 117>>, <<109, 97, 115>>, <<101, 109>>, <<99, 111, 109>>,
                       <<112, 111, 114>>, <<112, 97, 114, 97>>, <<100, 101>>,
                       <<100, 101, 115, 100, 101>>, <<97, 116, 233>>, <<115, 111, 98, 114, 101>>,
                       <<115, 111, 98>>, <<101, 110, 116, 114, 101>>,
                       <<100, 117, 114, 97, 110, 116, 101>>, <<97, 112, 243, 115>>,
                       <<97, 110, 116, 101, 115>> >>],
            \* line 64: \b(\u00E9|s\u00E3o|era|eram|tem|t\u00EAm|tinha|ser\u00E1|seria|poderia|deveria)\b
            [kind |-> "words", chars |-> {},
             words |-> << <<233>>, <<115, 227, 111>>, <<101, 114, 97>>, <<101, 114, 97, 109>>,
                       <<116, 101, 109>>, <<116, 234, 109>>, <<116, 105, 110, 104, 97>>,
                       <<115, 101, 114, 225>>, <<115, 101, 114, 105, 97>>,
                       <<112, 111, 100, 101, 114, 105, 97>>,
                       <<100, 101, 118, 101, 114, 105, 97>> >>],
            \* line 65: a character class
            [kind |-> "class", words |-> <<>>,
             chars |-> {224, 225, 226, 227, 231, 233, 234, 237, 243, 244, 245, 250}] >>,
        \* line 67: de a o que e do da em um para \u00E9 com n\u00E3o uma os no se na por mais
        commonWords |-> << <<100, 101>>, <<97>>, <<111>>, <<113, 117, 101>>, <<101>>,
                           <<100, 111>>, <<100, 97>>, <<101, 109>>, <<117, 109>>,
                           <<112, 97, 114, 97>>, <<233>>, <<99, 111, 109>>, <<110, 227, 111>>,
                           <<117, 109, 97>>, <<111, 115>>, <<110, 111>>, <<115, 101>>,
                           <<110, 97>>, <<112, 111, 114>>, <<109, 97, 105, 115>> >>],
       [code |-> "ru", name |-> "Russian",
        patterns |-> <<
            \* line 72: a character class
            [kind |-> "class", words |-> <<>>,
             chars |-> {1105} \cup (1072..1103)],
            \* line 73: \b(\u0438|\u0432|\u043D\u0435|\u043D\u0430|\u044F|\u0431\u044B\u0442\u044C|\u0442\u043E\u0442|\u043E\u043D|\u043E\u043D\u043E|\u043E\u043D\u0430|\u043E\u043D\u0438|\u043C\u044B|\u0432\u044B|\u0442\u044B|\u0447\u0442\u043E|\u044D\u0442\u043E|\u043A\u0430\u043A|\u0433\u0434\u0435|\u043A\u043E\u0433\u0434\u0430)\b
            [kind |-> "words", chars |-> {},
             words |-> << <<1080>>, <<1074>>, <<1085, 1077>>, <<1085, 1072>>, <<1103>>,
                       <<1073, 1099, 1090, 1100>>, <<1090, 1086, 1090>>, <<1086, 1085>>,
                       <<1086, 1085, 1086>>, <<1086, 1085, 1072>>, <<1086, 1085, 1080>>,
                       <<1084, 1099>>, <<1074, 1099>>, <<1090, 1099>>, <<1095, 1090, 1086>>,
                       <<1101, 1090, 1086>>, <<1082, 1072, 1082>>, <<1075, 1076, 1077>>,
                       <<1082, 1086, 1075, 1076, 1072>> >>] >>,
        \* line 75: \u0432 \u0438 \u043D\u0435 \u043D\u0430 \u044F \u0431\u044B\u0442\u044C \u0442\u043E\u0442 \u043E\u043D \u043E\u043D\u043E \u043E\u043D\u0430 \u043E\u043D\u0438 \u043C\u044B \u0432\u044B \u0442\u044B \u0447\u0442\u043E \u044D\u0442\u043E \u043A\u0430\u043A \u0433\u0434\u0435 \u043A\u043E\u0433\u0434\u0430 \u043F\u043E\u0447\u0435\u043C\u0443
        commonWords |-> << <<1074>>, <<1080>>, <<1085, 1077>>, <<1085, 1072>>, <<1103>>,
                           <<1073, 1099, 1090, 1100>>, <<1090, 1086, 1090>>, <<1086, 1085>>,
                           <<1086, 1085, 1086>>, <<1086, 1085, 1072>>, <<1086, 1085, 1080>>,
                           <<1084, 1099>>, <<1074, 1099>>, <<1090, 1099>>, <<1095, 1090, 1086>>,
                           <<1101, 1090, 1086>>, <<1082, 1072, 1082>>, <<1075, 1076, 1077>>,
                           <<1082, 1086, 1075, 1076, 1072>>,
                           <<1087, 1086, 1095, 1077, 1084, 1091>> >>],
       [code |-> "ja", name |-> "Japanese",
        patterns |-> <<
            \* line 80: a character class
            [kind |-> "class", words |-> <<>>,
             chars |-> {12364, 12394, 12402, 12425, 12459, 12479, 12490, 23383, 28450}],
            \* line 81: a character class
            [kind |-> "class", words |-> <<>>,
             chars |-> (12354..12435) \cup (12450..12531) \cup (19968..40879)],
            \* line 82: \b(\u3067\u3059|\u3067\u3042\u308B|\u3060|\u306F|\u304C|\u3092|\u306B|\u3067|\u3068|\u306E|\u304B\u3089|\u307E\u3067|\u3088\u308A|\u306B\u3064\u3044\u3066)\b
            [kind |-> "words", chars |-> {},
             words |-> << <<12391, 12377>>, <<12391, 12354, 12427>>, <<12384>>, <<12399>>,
                       <<12364>>, <<12434>>, <<12395>>, <<12391>>, <<12392>>, <<12398>>,
                       <<12363, 12425>>, <<12414, 12391>>, <<12424, 12426>>,
                       <<12395, 12388, 12356, 12390>> >>] >>,
        \* line 84: \u306E \u306B \u306F \u3092 \u305F \u304C \u3067 \u3066 \u3068 \u3057 \u308C \u3055 \u3042\u308B \u3044\u308B \u3082 \u3059\u308B \u304B\u3089 \u306A \u3053\u3068 \u3068\u3057\u3066
        commonWords |-> << <<12398>>, <<12395>>, <<12399>>, <<12434>>, <<12383>>, <<12364>>,
                           <<12391>>, <<12390>>, <<12392>>, <<12375>>, <<12428>>, <<12373>>,
                           <<12354, 12427>>, <<12356, 12427>>, <<12418>>, <<12377, 12427>>,
                           <<12363, 12425>>, <<12394>>, <<12371, 12392>>,
                           <<12392, 12375, 12390>> >>],
       [code |-> "zh", name |-> "Chinese",
        patterns |-> <<
            \* line 89: a character class
            [kind |-> "class", words |-> <<>>,
             chars |-> (19968..40879)],
            \* line 90: \b(\u7684|\u4E86|\u548C|\u662F|\u5728|\u6709|\u4E0D|\u6211|\u4F60|\u4ED6|\u5979|\u5B83|\u4EEC|\u8FD9|\u90A3|\u4EC0\u4E48|\u600E\u4E48|\u4E3A\u4EC0\u4E48|\u54EA\u91CC|\u4EC0\u4E48\u65F6\u5019)\b
            [kind |-> "words", chars |-> {},
             words |-> << <<30340>>, <<20102>>, <<21644>>, <<26159>>, <<22312>>, <<26377>>,
                       <<19981>>, <<25105>>, <<20320>>, <<20182>>, <<22905>>, <<23427>>,
                       <<20204>>, <<36825>>, <<37027>>, <<20160, 20040>>, <<24590, 20040>>,
                       <<20026, 20160, 20040>>, <<21738, 37324>>, <<20160, 20040, 26102, 20505>> >>] >>,
        \* line 92: \u7684 \u4E86 \u548C \u662F \u5728 \u6709 \u4E0D \u6211 \u4F60 \u4ED6 \u5979 \u5B83 \u4EEC \u8FD9 \u90A3 \u4EC0\u4E48 \u600E\u4E48 \u4E3A\u4EC0\u4E48 \u54EA\u91CC \u4EC0\u4E48\u65F6\u5019
        commonWords |-> << <<30340>>, <<20102>>, <<21644>>, <<26159>>, <<22312>>, <<26377>>,
                           <<19981>>, <<25105>>, <<20320>>, <<20182>>, <<22905>>, <<23427>>,
                           <<20204>>, <<36825>>, <<37027>>, <<20160, 20040>>, <<24590, 20040>>,
                           <<20026, 20160, 20040>>, <<21738, 37324>>,
                           <<20160, 20040, 26102, 20505>> >>],
       [code |-> "ko", name |-> "Korean",
        patterns |-> <<
            \* line 97: a character class
            [kind |-> "class", words |-> <<>>,
             chars |-> (44032..55203)],
            \* line 98: \b(\uC774|\uADF8|\uC800|\uC758|\uB97C|\uC744|\uC5D0|\uC5D0\uC11C|\uC640|\uACFC|\uB85C|\uC73C\uB85C|\uB294|\uC740|\uAC00|\uC774|\uD558\uB2E4|\uC788\uB2E4|\uC5C6\uB2E4|\uB418\uB2E4)\b
            [kind |-> "words", chars |-> {},
             words |-> << <<51060>>, <<44536>>, <<51200>>, <<51032>>, <<47484>>, <<51012>>,
                       <<50640>>, <<50640, 49436>>, <<50752>>, <<44284>>, <<47196>>,
                       <<51004, 47196>>, <<45716>>, <<51008>>, <<44032>>, <<51060>>,
                       <<54616, 45796>>, <<51080, 45796>>, <<50630, 45796>>, <<46104, 45796>> >>] >>,
        \* line 100: \uC774 \uADF8 \uC800 \uC758 \uB97C \uC744 \uC5D0 \uC5D0\uC11C \uC640 \uACFC \uB85C \uC73C\uB85C \uB294 \uC740 \uAC00 \uC774 \uD558\uB2E4 \uC788\uB2E4 \uC5C6\uB2E4 \uB418\uB2E4
        commonWords |-> << <<51060>>, <<44536>>, <<51200>>, <<51032>>, <<47484>>, <<51012>>,
                           <<50640>>, <<50640, 49436>>, <<50752>>, <<44284>>, <<47196>>,
                           <<51004, 47196>>, <<45716>>, <<51008>>, <<44032>>, <<51060>>,
                           <<54616, 45796>>, <<51080, 45796>>, <<50630, 45796>>,
                           <<46104, 45796>> >>] >>

\* \b at position i: exactly one of text[i-1], text[i] is a word character
WordBoundary(text, i) ==
    (i > 1 /\ IsWordCP(text[i - 1])) # (i <= Len(text) /\ IsWordCP(text[i]))

\* the word w stands at position i, ignoring case
EqualsIgnoringCase(text, i, w) ==
    /\ i + Len(w) - 1 <= Len(text)
    /\ \A j \in 1..Len(w) : Canonicalize(text[i + j - 1]) = Canonicalize(w[j])

\* the character c is in the class, ignoring case
ClassHas(chars, c) ==
    c \in chars \/ Canonicalize(c) \in chars \/ ToLowerCP(c) \in chars

\* the position after the match of the pattern that starts at i, 0 when
\* none starts there: the first alternative, in the order written, that
\* stands at i between two word boundaries
MatchEndAt(text, i, pattern) ==
    IF pattern.kind = "class"
    THEN IF ClassHas(pattern.chars, text[i]) THEN i + 1 ELSE 0
    ELSE IF ~WordBoundary(text, i) THEN 0
    ELSE LET alts == {k \in 1..Len(pattern.words) :
                         /\ EqualsIgnoringCase(text, i, pattern.words[k])
                         /\ WordBoundary(text, i + Len(pattern.words[k]))}
         IN  IF alts = {} THEN 0
             ELSE i + Len(pattern.words[CHOOSE k \in alts : \A m \in alts : k <= m])

\* for every position of the text, the position after the match that starts
\* there, 0 when none does
MatchEnds(text, pattern) ==
    SubSeq([j \in 1..Len(text) |-> MatchEndAt(text, j, pattern)], 1, Len(text))

\* where the first match at or after position i starts, 0 when there is none
NextMatchStart(ends, i) ==
    LET starts == {j \in i..Len(ends) : ends[j] # 0}
    IN  IF starts = {} THEN 0 ELSE CHOOSE j \in starts : \A m \in starts : j <= m

\* the number of successive matches from position i on
RECURSIVE CountMatchesFrom(_, _)
CountMatchesFrom(ends, i) ==
    LET j == NextMatchStart(ends, i)
    IN  IF j = 0 THEN 0 ELSE 1 + CountMatchesFrom(ends, ends[j])

\* where the last of the successive matches from position i on ends, as a
\* lastIndex (the number of characters before it); i - 1 when there is none
RECURSIVE LastMatchEndFrom(_, _)
LastMatchEndFrom(ends, i) ==
    LET j == NextMatchStart(ends, i)
    IN  IF j = 0 THEN i - 1 ELSE LastMatchEndFrom(ends, ends[j])

\* a use of a global pattern that starts at its lastIndex and leaves it
\* after the last match, as repeated pattern.exec(text) without a reset does
StickyMatch(text, pattern, start) ==
    IF start > Len(text) THEN [count |-> 0, lastIndex |-> 0]
    ELSE [count     |-> CountMatchesFrom(MatchEnds(text, pattern), start + 1),
          lastIndex |-> LastMatchEndFrom(MatchEnds(text, pattern), start + 1)]

\* text.match(pattern) for a pattern with the g flag: the search starts
\* with lastIndex set to 0 whatever it was, and the failing last search
\* leaves it 0; count is (text.match(pattern) || []).length
GlobalMatch(text, pattern, start) ==
    [count |-> CountMatchesFrom(MatchEnds(text, pattern), 1), lastIndex |-> 0]

\* the positions where the parts of text.split(/\s+/) that are not empty start
WordStarts(text) ==
    {i \in 1..Len(text) : ~IsSpaceCP(text[i]) /\ (i = 1 \/ IsSpaceCP(text[i - 1]))}

\* the part of text.split(/\s+/) that starts at position i
WordAt(text, i) ==
    SubSeq(text, i, CHOOSE j \in i..Len(text) :
                        /\ \A m \in i..j : ~IsSpaceCP(text[m])
                        /\ (j = Len(text) \/ IsSpaceCP(text[j + 1])))

\* textLower.split(/\s+/).filter(word => word.length > 1), each word named
\* by the position where it starts
Words(textLower) == {i \in WordStarts(textLower) : Len(WordAt(textLower, i)) > 1}

\* /\d{2}:\d{2}:\d{2}[,\.]\d{3}/.test(text)
HasTimestamp(text) ==
    \E i \in 1..(Len(text) - 11) :
        /\ \A k \in {0, 1, 3, 4, 6, 7, 9, 10, 11} : IsDigitCP(text[i + k])
        /\ text[i + 2] = 58 /\ text[i + 5] = 58
        /\ text[i + 8] \in {44, 46}

\* the separator /\n\s*\n/ that starts at position j ends at the last line
\* feed reached from it through white space only; 0 when none starts at j
SeparatorEnd(text, j) ==
    LET ends == {k \in (j + 1)..Len(text) :
                    text[k] = 10 /\ \A m \in (j + 1)..(k - 1) : IsSpaceCP(text[m])}
    IN  IF text[j] # 10 \/ ends = {} THEN 0
        ELSE CHOOSE k \in ends : \A m \in ends : m <= k

\* text.split(/\n\s*\n/)
RECURSIVE SplitBlocks(_)
SplitBlocks(text) ==
    LET starts == {j \in 1..Len(text) : SeparatorEnd(text, j) # 0}
    IN  IF starts = {} THEN <<text>>
        ELSE LET j == CHOOSE k \in starts : \A m \in starts : k <= m
             IN  <<SubSeq(text, 1, j - 1)>>
                     \o SplitBlocks(SubSeq(text, SeparatorEnd(text, j) + 1, Len(text)))

\* the text lines one block contributes: none when it has fewer than three
\* lines, otherwise its lines from the third on, trimmed, the empty ones left out
BlockTextLines(block) ==
    LET lines == split(TrimCP(block), 10)
    IN  IF Len(lines) < 3 THEN <<>>
        ELSE SelectSeq([i \in 1..(Len(lines) - 2) |-> TrimCP(lines[i + 2])],
                       LAMBDA line : line # <<>>)

RECURSIVE TextLinesOf(_)
TextLinesOf(blocks) ==
    IF blocks = <<>> THEN <<>>
    ELSE BlockTextLines(Head(blocks)) \o TextLinesOf(Tail(blocks))

MsgInvalidSRTContent == <<"Invalid SRT content: must be a non-empty string">>

extractTextFromSRT(srtContent) ==
    IF Falsy(srtContent) \/ ~IsString(srtContent) THEN Throw(MsgInvalidSRTContent)
    ELSE Ok(Str(join(TextLinesOf(SplitBlocks(TrimCP(srtContent.s))), <<32>>)))

\* an array built element by element, each element computed once
ArrayOf(f) == SubSeq(f, 1, Len(f))

\* fractions: the numbers the code computes, without rounding
Fraction(n, d) == IF n = 0 THEN [num |-> 0, den |-> 1] ELSE [num |-> n, den |-> d]

AtLeast(a, b) == a.num * b.den >= b.num * a.den

RECURSIVE SumOf(_)
SumOf(s) == IF s = <<>> THEN 0 ELSE Head(s) + SumOf(Tail(s))

Minimum(a, b) == IF a <= b THEN a ELSE b

Maximum(a, b) == IF a >= b THEN a ELSE b

\* the characters of the bonus classes /[...]/gi of de, es and fr
BonusChars(code) ==
    CASE code = "de" -> {228, 246, 252, 223}
      [] code = "es" -> {241, 225, 233, 237, 243, 250, 252}
      [] code = "fr" -> {224, 226, 228, 233, 232, 234, 235, 239, 238, 244, 246, 249,
                         251, 252, 255, 231}
      [] OTHER -> {}

\* the bonus pattern is a literal evaluated at every call: a new object,
\* whose search starts at 0
HasBonusChar(text, code) == \E i \in 1..Len(text) : ClassHas(BonusChars(code), text[i])

\* calculateLanguageScore(text, langCode) with the lastIndex of each pattern
\* of the language before the call; the score and the lastIndex of each
\* pattern after it.  With W words, D = max(W, 5), P patterns of m_1..m_P
\* matches, c common words and the bonus b in {0, 1}, the score is
\*   0.4 * (sum of min(m_k / D, 1)) / P * 2 + 0.6 * c / W * 3 + 0.3 * b
\*   = (96 / P * W * sum of min(m_k, D) + 216 * c * D + 36 * b * D * W) / (120 * D * W)
\* where P is 2, 3 or 4, and min(score, 1) caps the numerator.
calculateLanguageScore(text, language, indexes) ==
    LET textLower == toLowerCase(text)
        words     == Words(textLower)
        W         == Cardinality(words)
        D         == Maximum(W, 5)
        P         == Len(language.patterns)
        matches   == ArrayOf([k \in 1..P |->
                                 GlobalMatch(text, language.patterns[k], indexes[k])])
        patternSum == SumOf([k \in 1..P |-> Minimum(matches[k].count, D)])
        commonWordMatches ==
            Cardinality({i \in words :
                LET word == WordAt(textLower, i)
                IN  \E k \in 1..Len(language.commonWords) : language.commonWords[k] = word})
        bonus     == IF HasBonusChar(text, language.code) THEN 1 ELSE 0
        score     == ((96 \div P) * W * patternSum) + (216 * commonWordMatches * D)
                         + (36 * bonus * D * W)
    IN  IF W = 0 THEN [score |-> Fraction(0, 1), lastIndex |-> indexes]
        ELSE [score     |-> Fraction(Minimum(score, 120 * D * W), 120 * D * W),
              lastIndex |-> [k \in 1..P |-> matches[k].lastIndex]]

\* the lastIndex of every pattern of LANGUAGE_PATTERNS when the module is loaded
InitialLastIndex ==
    [l \in 1..Len(LANGUAGE_PATTERNS) |-> [k \in 1..Len(LANGUAGE_PATTERNS[l].patterns) |-> 0]]

minConfidence == Fraction(1, 10)

\* Math.min(minConfidence, 0.05)
suggestionConfidence == Fraction(1, 20)

MsgInvalidContent == <<"Invalid content: must be a non-empty string">>

NotDetected == [detected |-> FALSE, language |-> JSNull, confidence |-> Fraction(0, 1),
                suggestions |-> <<>>]

\* what detectLanguage reads: the input, or the extracted text of an input
\* that looks like SRT
TextContent(srtContent) ==
    IF IncludesSeq(srtContent.s, <<45, 45, 62>>) \/ HasTimestamp(srtContent.s)
    THEN extractTextFromSRT(srtContent).val.s
    ELSE srtContent.s

\* the entries in the order of Object.entries(scores), not sorted
SortedResultsUnsorted(scored) ==
    SubSeq([l \in 1..Len(scored) |-> [code       |-> LANGUAGE_PATTERNS[l].code,
                                      name       |-> LANGUAGE_PATTERNS[l].name,
                                      confidence |-> scored[l].score]], 1, Len(scored))

\* Object.entries(scores).map(...).sort((a, b) => b.confidence - a.confidence):
\* the sort is stable, so a profile comes before those of a smaller score
\* and before the later ones of the same score
SortedResults(scored) ==
    LET N == Len(scored)
        Before(a, b) ==
            \/ ~AtLeast(scored[b].score, scored[a].score)
            \/ (AtLeast(scored[a].score, scored[b].score) /\ a < b)
        \* how many profiles come before profile l
        rank  == ArrayOf([l \in 1..N |-> Cardinality({m \in 1..N : Before(m, l)})])
        order == ArrayOf([r \in 1..N |-> CHOOSE l \in 1..N : rank[l] = r - 1])
    IN  ArrayOf([r \in 1..N |-> [code       |-> LANGUAGE_PATTERNS[order[r]].code,
                                 name       |-> LANGUAGE_PATTERNS[order[r]].name,
                                 confidence |-> scored[order[r]].score]])

\* detectLanguage(srtContent) with the lastIndex of every pattern before the
\* call: what it returns or throws, and the lastIndex of every pattern after
detectLanguage(srtContent, indexes) ==
    IF Falsy(srtContent) \/ ~IsString(srtContent)
    THEN [result |-> Throw(MsgInvalidContent), lastIndex |-> indexes]
    ELSE LET textContent == TextContent(srtContent)
         IN  IF TrimCP(textContent) = <<>>
             THEN [result |-> Ok(NotDetected), lastIndex |-> indexes]
             ELSE LET scored == ArrayOf([l \in 1..Len(LANGUAGE_PATTERNS) |->
                                    calculateLanguageScore(textContent, LANGUAGE_PATTERNS[l],
                                                           indexes[l])])
                      sortedResults == SortedResults(scored)
                      topResult == sortedResults[1]
                      qualifying == SelectSeq(sortedResults,
                                        LAMBDA r : AtLeast(r.confidence, suggestionConfidence))
                  IN  [result |-> Ok([detected    |-> AtLeast(topResult.confidence, minConfidence),
                                      language    |-> IF AtLeast(topResult.confidence, minConfidence)
                                                      THEN topResult ELSE JSNull,
                                      confidence  |-> topResult.confidence,
                                      suggestions |-> SubSeq(qualifying, 1,
                                                             Minimum(Len(qualifying), 3))]),
                       lastIndex |-> [l \in 1..Len(LANGUAGE_PATTERNS) |-> scored[l].lastIndex]]

(***************************************************************************)
(* utils/openai-integration.js.  What the API answers to one call is an    *)
(* outcome: a response with a content, a response without choices, or an   *)
(* error with a status, a code and a message, each of which may be absent. *)
(***************************************************************************)
NoStatus == 0

Outcome(kind, content, status, code, message) ==
    [kind |-> kind, content |-> content, status |-> status, code |-> code,
     message |-> message]

\* a response whose first choice has the content
Responds(content) == Outcome("response", content, NoStatus, "none", JSUndefined)

\* a response with no choices, or an empty array of them
NoChoices == Outcome("nochoices", JSUndefined, NoStatus, "none", JSUndefined)

\* a rejection with an error object
Rejects(status, code, message) == Outcome("error", JSUndefined, status, code, message)

NoOutcome == Outcome("none", JSUndefined, NoStatus, "none", JSUndefined)

MsgEmptyResponse == <<"E", "m", "p", "t", "y">>

MsgNoChoices == <<"N", "o", " ", "c", "h", "o", "i", "c", "e", "s">>

MsgTypeError == <<"T", "y", "p", "e", "E", "r", "r", "o", "r">>

\* the error the catch block of the loop receives: the rejection of the
\* API, or what the try block threw on the response
CaughtError(outcome) ==
    CASE outcome.kind = "error" -> outcome
      [] outcome.kind = "nochoices" -> Rejects(NoStatus, "none", Str(MsgNoChoices))
      [] outcome.kind = "response" /\ ~IsString(outcome.content) ->
             \* response.choices[0].message.content.trim() on a content that is no string
             Rejects(NoStatus, "none", Str(MsgTypeError))
      [] OTHER -> Rejects(NoStatus, "none", Str(MsgEmptyResponse))

\* the try block returns: the response has a content that is not blank
Succeeds(outcome) ==
    outcome.kind = "response" /\ IsString(outcome.content) /\ trim(outcome.content.s) # <<>>

\* error.message.includes(...) raises a TypeError when there is no message;
\* it is reached unless error.status === 429
CatchThrows(error) == error.status # 429 /\ ~IsString(error.message)

isRateLimit(error) ==
    \/ error.status = 429
    \/ includes(error.message.s, <<"r", "a", "t", "e", " ", "l", "i", "m", "i", "t">>)
    \/ includes(error.message.s, <<"R", "a", "t", "e", " ", "l", "i", "m", "i", "t">>)

\* a test that takes every failure for one worth a retry
isRetryableAlways(error) == TRUE

isRetryable(error) ==
    \/ isRateLimit(error)
    \/ error.status >= 500
    \/ error.code \in {"ECONNRESET", "ETIMEDOUT"}

\* `${error.message}` in a template string
MessageText(error) ==
    IF IsString(error.message) THEN error.message.s
    ELSE <<"u", "n", "d", "e", "f", "i", "n", "e", "d">>

\* the result objects of correctSubtitleText
Corrected(correctedText) == [success |-> TRUE, correctedText |-> correctedText, error |-> <<>>]

Failed(error) == [success |-> FALSE, correctedText |-> <<>>, error |-> error]

MsgNotAvailable == <<"OpenAI client not available. API key may be missing or invalid.">>

MsgInvalidSRT == <<"Invalid SRT content provided">>

MsgUnexpected == <<"Unexpected error in retry logic">>

\* `OpenAI API failed after ${attempt + 1} attempts: ${error.message}`
MsgFailedAfter(attempts, error) ==
    <<"OpenAI API failed after ", attempts, " attempts: ">> \o MessageText(error)

\* calculateBackoffDelay(attempt) without its jitter, which adds less than a tenth
BackoffDelay(attempt) == Minimum(1000 * (2 ^ attempt), 30000)

\* the default of the parameter maxRetries
DefaultMaxRetries == 3

\* a fallback that hands back what the failed call left, not the input
FallbackWithoutOriginal(srtContent, settled) ==
    [success |-> TRUE,
     correctedText |-> IF settled.ok /\ settled.val.success
                       THEN Str(settled.val.correctedText) ELSE Str(<<>>),
     usedFallback |-> ~(settled.ok /\ settled.val.success),
     error |-> IF settled.ok THEN settled.val.error ELSE settled.err]

\* what correctWithFallback makes of the settled call of correctSubtitleText:
\* a returned result, or a rejection
Fallback(srtContent, settled) ==
    IF settled.ok /\ settled.val.success
    THEN [success |-> TRUE, correctedText |-> Str(settled.val.correctedText),
          usedFallback |-> FALSE, error |-> <<>>]
    ELSE [success |-> TRUE, correctedText |-> srtContent, usedFallback |-> TRUE,
          error |-> IF settled.ok THEN settled.val.error ELSE settled.err]

(***************************************************************************)
(* server.js, app.post('/convert'), from the validation of the decoded     *)
(* content on.  What correctWithFallback resolved with is an input of the  *)
(* handler; correctionError is a message, or the empty sequence for null.  *)
(***************************************************************************)
MsgNotConfigured == <<"OpenAI API key not configured">>

MsgCorrectedInvalid == <<"Corrected content was invalid, used original">>

\* stage 4 up to the re-parse: what the correction service leaves
AfterCorrection(srtContent, available, correctionResult) ==
    IF ~available
    THEN [content |-> srtContent, used |-> FALSE, error |-> MsgNotConfigured]
    ELSE IF correctionResult.success
    THEN [content |-> correctionResult.correctedText,
          used    |-> ~correctionResult.usedFallback,
          error   |-> IF correctionResult.usedFallback THEN correctionResult.error ELSE <<>>]
    ELSE [content |-> srtContent, used |-> FALSE, error |-> correctionResult.error]

\* what is known at the re-parse: the content, the flag and the error the
\* correction left, and what parseSRT makes of the original content and of
\* the content after correction
Parsed(srtContent, after) ==
    [after |-> after,
     original  |-> parseSRT(srtContent),
     corrected |-> IF after.used THEN parseSRT(after.content) ELSE Throw(<<>>)]

\* a re-parse whose failure is not caught: the corrected records, or none
ReparseTrusting(p) ==
    [parsedSubtitles  |-> IF p.corrected.ok THEN p.corrected.val ELSE <<>>,
     correctedContent |-> p.after.content,
     correctionUsed   |-> p.after.used,
     correctionError  |-> p.after.error]

\* the re-parse of the corrected content, and the fall back to the original
Reparse(p) ==
    IF p.after.used /\ p.corrected.ok
    THEN [parsedSubtitles  |-> p.corrected.val,
          correctedContent |-> p.after.content,
          correctionUsed   |-> TRUE,
          correctionError  |-> p.after.error]
    ELSE [parsedSubtitles  |-> p.original.val,
          correctedContent |-> p.after.content,
          correctionUsed   |-> FALSE,
          correctionError  |-> IF p.after.used THEN MsgCorrectedInvalid ELSE p.after.error]

\* what the handler sends: a status, the kind of body, the error of a body
\* that reports one, the value of processingStage, the VTT content and the
\* JSON data of a success
Response(status, sent, error, processingStage, vttContent, data) ==
    [status |-> status, sent |-> sent, error |-> error, stage |-> processingStage,
     vttContent |-> vttContent, data |-> data]

NoData == [success |-> FALSE]

\* warnings: the correction warning, the compliance warnings, the warning of
\* a failed Base64 encoding
Warnings(correctionError, complianceWarnings, includeBase64, base64Result) ==
    (IF correctionError # <<>>
     THEN <<[type |-> "correction", message |-> correctionError]>> ELSE <<>>)
    \o SubSeq([i \in 1..Len(complianceWarnings) |->
                  [type |-> "compliance", message |-> <<complianceWarnings[i]>>]],
              1, Len(complianceWarnings))
    \o (IF includeBase64 /\ ~base64Result.ok
        THEN <<[type |-> "base64",
                message |-> <<"Base64 encoding failed: ">> \o base64Result.err]>>
        ELSE <<>>)

\* stage 7: responseData with its warnings and its Base64 data
ResponseData(stage, language, vttContent, complianceResult, includeBase64, base64Result) ==
    [success    |-> TRUE,
     stats      |-> [subtitleCount     |-> Len(stage.parsedSubtitles),
                     correctionApplied |-> stage.correctionUsed,
                     converted         |-> Len(BufferFromUtf8(vttContent))],
     language   |-> language,
     compliance |-> [bunnyStreamCompatible |-> complianceResult.isValid,
                     checks   |-> complianceResult.compliance,
                     warnings |-> complianceResult.warnings],
     warnings   |-> Warnings(stage.correctionError, complianceResult.warnings,
                             includeBase64, base64Result),
     base64     |-> IF includeBase64 /\ base64Result.ok THEN base64Result.val.content
                    ELSE <<>>,
     bunnyStream |-> IF includeBase64 /\ base64Result.ok
                     THEN [ready    |-> TRUE,
                           mimeType |-> base64Result.val.mimeType,
                           charset  |-> base64Result.val.charset,
                           encoding |-> base64Result.val.encoding]
                     ELSE JSUndefined]

\* the response without the gate of the compliance result
RespondUngated(stage, language, generated, complianceResult, includeBase64) ==
    IF ~generated.ok
    THEN Response(500, "json", "VTT Generation Error", "conversion", <<>>, NoData)
    ELSE IF includeBase64
    THEN Response(200, "json", "", "complete", generated.val,
                  ResponseData(stage, language, generated.val, complianceResult,
                               includeBase64, generateBase64Output(Str(generated.val))))
    ELSE Response(200, "file", "", "complete", generated.val, NoData)

\* stages 6 and 7: the response for the generated content and its
\* compliance result
Respond(stage, language, generated, complianceResult, includeBase64) ==
    IF ~generated.ok \/ ~complianceResult.isValid
    THEN Response(500, "json", "VTT Generation Error", "conversion", <<>>, NoData)
    ELSE IF includeBase64
    THEN Response(200, "json", "", "complete", generated.val,
                  ResponseData(stage, language, generated.val, complianceResult,
                               includeBase64, generateBase64Output(Str(generated.val))))
    ELSE Response(200, "file", "", "complete", generated.val, NoData)

\* stage 6: generateVTT and validateBunnyStreamCompliance
Generate(stage, language, generated, includeBase64) ==
    Respond(stage, language, generated,
            validateBunnyStreamCompliance(Str(generated.val)), includeBase64)

\* stage 5: the detection on the corrected content, a failure of which
\* leaves the result of nothing detected
Detect(stage, detection, includeBase64) ==
    [response  |-> Generate(stage,
                            IF detection.result.ok THEN detection.result.val ELSE NotDetected,
                            generateVTT(Array(stage.parsedSubtitles)), includeBase64),
     lastIndex |-> detection.lastIndex]

\* stages 4 to 7, after the validation
Continue(stage, includeBase64, indexes) ==
    Detect(stage, detectLanguage(Str(CodeUnits(stage.correctedContent.s)), indexes),
           includeBase64)

\* stages 3 to 7 of the handler; the result holds the response and the
\* lastIndex table language detection leaves
convert(srtContent, available, correctionResult, includeBase64, indexes) ==
    IF ~validateSRTFormat(srtContent)
    THEN [response  |-> Response(400, "json", "Format Validation Error", "validation",
                                 <<>>, NoData),
          lastIndex |-> indexes]
    ELSE Continue(Reparse(Parsed(srtContent,
                                 AfterCorrection(srtContent, available, correctionResult))),
                  includeBase64, indexes)

(***************************************************************************)
(* The callers.  The modules keep no state of their own: a caller holds an *)
(* input, calls the operations on it in any order, and keeps each result.  *)
(***************************************************************************)
Called(op) == op \in DOMAIN out

\* the caller records what operation op returned or threw
Return(op, r) ==
    /\ out' = (op :> r) @@ out
    /\ UNCHANGED <<input, lastIndex, correction>>

\* no call of correctSubtitleText is in progress
NoCorrection ==
    [pc |-> "idle", attempt |-> 0, calls |-> 0, sleeps |-> 0, delay |-> 0,
     first |-> NoOutcome, last |-> NoOutcome]

(***************************************************************************)
(* Inputs of the SRT parser                                                *)
(***************************************************************************)
MaxLines == 4
MaxBlocks == 2
MaxBOMs == 1

TSLine ==
    <<"0", "0", ":", "0", "0", ":", "0", "1", ",", "0", "0", "0", " ", "-", "-", ">", " ",
      "0", "0", ":", "0", "0", ":", "0", "2", ",", "5", "0", "0">>

\* minutes 99: accepted by the parser's expression only
TSLineOutOfRange ==
    <<"0", "1", ":", "9", "9", ":", "0", "0", ",", "0", "0", "0", "-", "-", ">",
      "0", "1", ":", "9", "9", ":", "0", "1", ",", "0", "0", "0">>

VTTLine ==
    <<"0", "0", ":", "0", "0", ":", "0", "1", ".", "0", "0", "0", " ", "-", "-", ">", " ",
      "0", "0", ":", "0", "0", ":", "0", "2", ".", "5", "0", "0">>

SRTLineVocabulary ==
    {<<>>, <<" ">>, <<"1">>, <<"H", "i">>, TSLine, TSLineOutOfRange, VTTLine}

SRTBlockVocabulary ==
    { <<<<"1">>, TSLine, <<"H", "i">>>>,
      <<<<" ", "2">>, TSLine, <<"H", "i">>, <<>>, <<" ", "H", "i">>>>,
      <<<<"1">>, TSLineOutOfRange, <<"H", "i">>>>,
      <<<<"0">>, TSLine, <<"1">>, VTTLine>>,
      <<<<"1">>, TSLine, TSLine, <<" ">>>>,
      <<<<"H", "i">>, TSLine, <<"H", "i">>>>,
      <<<<"3">>, <<"H", "i">>>> }

SeqsUpTo(S, n) == UNION {[1..k -> S] : k \in 0..n}

\* blocks separated by one empty line
RECURSIVE BlockLines(_)
BlockLines(bs) ==
    IF bs = <<>> THEN <<>>
    ELSE IF Len(bs) = 1 THEN bs[1]
    ELSE bs[1] \o <<<<>>>> \o BlockLines(Tail(bs))

RECURSIVE BOMs(_)
BOMs(n) == IF n = 0 THEN <<>> ELSE <<BOM>> \o BOMs(n - 1)

\* every text of at most MaxLines lines of the vocabulary
SRTLineTexts == {join(ls, <<LF>>) : ls \in SeqsUpTo(SRTLineVocabulary, MaxLines)}

\* texts of at most MaxBlocks blocks, with each line ending and with leading
\* byte-order marks
SRTBlockTexts ==
    {BOMs(n) \o join(BlockLines(bs), nl) :
        bs \in SeqsUpTo(SRTBlockVocabulary, MaxBlocks),
        nl \in {<<LF>>, <<CR, LF>>, <<CR>>},
        n \in 0..MaxBOMs}

InitSRT ==
    /\ \/ \E s \in SRTLineTexts \cup SRTBlockTexts : input = Str(s)
       \/ input \in NonStrings
    /\ out = <<>>
    /\ lastIndex = InitialLastIndex
    /\ correction = NoCorrection

CallValidateSRTFormat ==
    /\ ~Called("validateSRTFormat")
    /\ Return("validateSRTFormat", Ok(validateSRTFormat(input)))

CallParseSRT ==
    /\ ~Called("parseSRT")
    /\ Return("parseSRT", parseSRT(input))

\* generateVTT on the records parseSRT returned
CallGenerateVTTOfParsed ==
    /\ Called("parseSRT")
    /\ out["parseSRT"].ok
    /\ ~Called("generateVTT")
    /\ Return("generateVTT", generateVTT(Array(out["parseSRT"].val)))

NextSRT ==
    \/ CallValidateSRTFormat
    \/ CallParseSRT
    \/ CallGenerateVTTOfParsed

SpecSRT == InitSRT /\ [][NextSRT]_vars

(***************************************************************************)
(* Inputs of generateVTT: arrays of subtitle objects, and values that are  *)
(* no array                                                                *)
(***************************************************************************)
MaxRecords == 2

StartOK == <<"0", "0", ":", "0", "0", ":", "0", "1", ",", "0", "0", "0">>

EndOK == <<"9", "9", ":", "5", "9", ":", "5", "9", ",", "9", "9", "9">>

StartOutOfRange == <<"0", "1", ":", "9", "9", ":", "9", "9", ",", "0", "0", "0">>

EndMalformed == <<"0", "0", ":", "0", "0", ":", "0", "3", ".", "0", "0", "0">>

TextPlain == <<"H", "i">>

\* two paragraphs, a digits-only line and a comma
TextLines == <<"7", LF, LF, "b", ",", " ">>

Subtitle(startTime, endTime, text) ==
    [t |-> "object", index |-> 7, startTime |-> startTime, endTime |-> endTime,
     text |-> text]

NotAnObject == [t |-> "null", index |-> 0, startTime |-> JSUndefined,
                endTime |-> JSUndefined, text |-> JSUndefined]

SubtitleVocabulary ==
    {Subtitle(Str(st), Str(en), Str(tx)) :
        st \in {StartOK, StartOutOfRange},
        en \in {EndOK, EndMalformed},
        tx \in {TextPlain, TextLines}}
    \cup {Subtitle(JSUndefined, Str(EndOK), Str(TextPlain)),
          Subtitle(Str(<<>>), Str(EndOK), Str(TextPlain)),
          Subtitle(Str(StartOK), JSUndefined, Str(TextPlain)),
          Subtitle(Str(StartOK), JSNumber, Str(TextPlain)),
          Subtitle(Str(StartOK), Str(EndOK), JSUndefined),
          Subtitle(Str(StartOK), Str(EndOK), JSNull),
          Subtitle(Str(StartOK), Str(EndOK), Str(<<>>)),
          NotAnObject}

InitGen ==
    /\ \/ \E a \in SeqsUpTo(SubtitleVocabulary, MaxRecords) : input = Array(a)
       \/ \E v \in NonStrings \cup {Str(TextPlain)} : input = [t |-> v.t, a |-> <<>>]
    /\ out = <<>>
    /\ lastIndex = InitialLastIndex
    /\ correction = NoCorrection

CallGenerateVTT ==
    /\ ~Called("generateVTT")
    /\ Return("generateVTT", generateVTT(input))

\* the strict validator on what generateVTT returned
CallValidateGenerated ==
    /\ Called("generateVTT")
    /\ out["generateVTT"].ok
    /\ ~Called("validateVTTFormat")
    /\ Return("validateVTTFormat", validateVTTFormat(Str(out["generateVTT"].val)))

NextGen ==
    \/ CallGenerateVTT
    \/ CallValidateGenerated

SpecGen == InitGen /\ [][NextGen]_vars

(***************************************************************************)
(* Inputs of convertTimestamp and parseTimestamp                           *)
(***************************************************************************)
TimestampInputs ==
    {h \o c \o m \o <<":">> \o sec \o sep \o ms \o tail :
        h \in {<<"0", "0">>, <<"9", "9">>, <<"7">>},
        c \in {<<":">>, <<".">>},
        m \in {<<"0", "0">>, <<"5", "9">>, <<"6", "0">>, <<"5", "x">>},
        sec \in {<<"0", "7">>, <<"5", "9">>, <<"9", "9">>},
        sep \in {<<",">>, <<".">>, <<",", ",">>},
        ms \in {<<"0", "0", "0">>, <<"9", "9", "9">>, <<"1", "2">>},
        tail \in {<<>>, <<"4">>, <<LF>>}}

InitTS ==
    /\ \/ \E s \in TimestampInputs \cup {<<>>} : input = Str(s)
       \/ input \in NonStrings
    /\ out = <<>>
    /\ lastIndex = InitialLastIndex
    /\ correction = NoCorrection

CallConvertTimestamp ==
    /\ ~Called("convertTimestamp")
    /\ Return("convertTimestamp", convertTimestamp(input))

CallParseTimestamp ==
    /\ ~Called("parseTimestamp")
    /\ Return("parseTimestamp", parseTimestamp(input))

NextTS ==
    \/ CallConvertTimestamp
    \/ CallParseTimestamp

SpecTS == InitTS /\ [][NextTS]_vars

(***************************************************************************)
(* The same timestamps through the parser and the generator: a caller      *)
(* parses a block whose start time is the input and converts the records   *)
(***************************************************************************)
\* one SRT block that starts at the timestamp ts
BlockStartingAt(ts) ==
    <<"1", LF>> \o ts \o Arrow \o EndOK \o <<LF, "H", "i", LF>>

CallParseSRTOfTimestamp ==
    /\ ~Called("parseSRT")
    /\ IsString(input)
    /\ Return("parseSRT", parseSRT(Str(BlockStartingAt(input.s))))

NextTimes ==
    \/ CallConvertTimestamp
    \/ CallParseTimestamp
    \/ CallParseSRTOfTimestamp
    \/ CallGenerateVTTOfParsed

SpecTimes == InitTS /\ [][NextTimes]_vars

(***************************************************************************)
(* Inputs of the VTT validators                                            *)
(***************************************************************************)
MaxVTTLines == 3

VTTPrefixes == {<<>>, <<BOM>>}

VTTHeaders ==
    {WEBVTTHeader \o <<LF, LF>>,
     WEBVTTHeader \o <<LF>>,
     WEBVTTHeader \o <<CR, LF, CR, LF>>,
     WEBVTTHeader \o <<" ", LF, LF>>,
     WEBVTTHeader,
     <<>>}

VTTLineVocabulary == {<<>>, <<"1">>, <<"H", "i">>, <<TAB>>, <<LONE>>, VTTLine}

VTTInputs ==
    {p \o h \o join(ls, nl) :
        p \in VTTPrefixes,
        h \in VTTHeaders,
        ls \in SeqsUpTo(VTTLineVocabulary, MaxVTTLines),
        nl \in {<<LF>>, <<CR, LF>>}}

InitVTT ==
    /\ \/ \E s \in VTTInputs : input = Str(s)
       \/ input \in NonStrings
    /\ out = <<>>
    /\ lastIndex = InitialLastIndex
    /\ correction = NoCorrection

CallValidateVTTFormat ==
    /\ ~Called("validateVTTFormat")
    /\ Return("validateVTTFormat", validateVTTFormat(input))

CallValidateBunnyStreamCompliance ==
    /\ ~Called("validateBunnyStreamCompliance")
    /\ Return("validateBunnyStreamCompliance", Ok(validateBunnyStreamCompliance(input)))

NextVTT ==
    \/ CallValidateVTTFormat
    \/ CallValidateBunnyStreamCompliance

SpecVTT == InitVTT /\ [][NextVTT]_vars

(***************************************************************************)
(* Callers of the encoding utilities on raw buffers: a buffer is built     *)
(* from a few byte chunks, the encoding is declared or left to detection.  *)
(***************************************************************************)
MaxChunks == 3

\* a UTF-8 BOM, 'A', the halves of a two-byte UTF-8 sequence, a
\* Windows-1252 indicator, a byte Windows-1252 leaves undefined, a UTF-16 BOM
ByteChunks == {UTF8BOM, <<65>>, <<195>>, <<188>>, <<147>>, <<129>>, <<255, 254>>}

RECURSIVE Concat(_)
Concat(chunks) == IF chunks = <<>> THEN <<>> ELSE Head(chunks) \o Concat(Tail(chunks))

Buffers == {Concat(cs) : cs \in SeqsUpTo(ByteChunks, MaxChunks)}

InitEnc ==
    /\ \E buffer \in {Buffer(b) : b \in Buffers} \cup {NullBuffer},
          encoding \in EncodingNames \cup {NoEncoding} :
           input = [buffer |-> buffer, encoding |-> encoding]
    /\ out = <<>>
    /\ lastIndex = InitialLastIndex
    /\ correction = NoCorrection

CallDetectEncoding ==
    /\ ~Called("detectEncoding")
    /\ Return("detectEncoding", Ok(detectEncoding(input.buffer)))

CallConvertToUTF8 ==
    /\ ~Called("convertToUTF8")
    /\ Return("convertToUTF8", convertToUTF8(input.buffer, input.encoding))

NextEnc ==
    \/ CallDetectEncoding
    \/ CallConvertToUTF8

SpecEnc == InitEnc /\ [][NextEnc]_vars

(***************************************************************************)
(* The detect -> convert workflow on a text encoded in a source encoding.  *)
(***************************************************************************)
MaxChars == 3

\* A, u-umlaut, A-tilde, the Latin-1 characters of the bytes EF BB BF FF FE,
\* the euro sign, a C1 control, U+FEFF and U+FFFD
TextAlphabet == {65, 252, ATilde, 239, 187, 191, 255, 254, 8364, 129, BOMChar, ReplacementChar}

SourceEncodings == {"utf8", "iso-8859-1", "windows-1252"}

\* the byte of a character in windows-1252, 0 when it has none
Windows1252Byte(cp) ==
    IF cp < 128 \/ (cp >= 160 /\ cp <= 255) THEN cp
    ELSE IF cp # ReplacementChar /\ \E k \in 1..32 : Windows1252High[k] = cp
    THEN 127 + (CHOOSE k \in 1..32 : Windows1252High[k] = cp)
    ELSE 0

\* text can be written in the encoding without loss
Representable(text, encoding) ==
    CASE encoding = "utf8" -> TRUE
      [] encoding = "iso-8859-1" -> \A i \in 1..Len(text) : text[i] <= 255
      [] encoding = "windows-1252" ->
             \A i \in 1..Len(text) : Windows1252Byte(text[i]) # 0

\* iconv.encode(text, encoding) of a representable text
iconvEncode(text, encoding) ==
    CASE encoding = "utf8" -> Utf8Encode(text)
      [] encoding = "iso-8859-1" -> Latin1Encode(text)
      [] encoding = "windows-1252" -> [i \in 1..Len(text) |-> Windows1252Byte(text[i])]

InitFlow ==
    /\ \E text \in SeqsUpTo(TextAlphabet, MaxChars), encoding \in SourceEncodings :
           /\ Representable(text, encoding)
           /\ input = [text |-> text, encoding |-> encoding]
    /\ out = <<>>
    /\ lastIndex = InitialLastIndex
    /\ correction = NoCorrection

CallEncode ==
    /\ ~Called("encode")
    /\ Return("encode", Ok(iconvEncode(input.text, input.encoding)))

CallDetectEncoded ==
    /\ Called("encode")
    /\ ~Called("detectEncoding")
    /\ Return("detectEncoding", Ok(detectEncoding(Buffer(out["encode"].val))))

CallConvertDetected ==
    /\ Called("detectEncoding")
    /\ ~Called("convertToUTF8")
    /\ Return("convertToUTF8",
              convertToUTF8(Buffer(out["encode"].val), out["detectEncoding"].val))

NextFlow ==
    \/ CallEncode
    \/ CallDetectEncoded
    \/ CallConvertDetected

SpecFlow == InitFlow /\ [][NextFlow]_vars

(***************************************************************************)
(* Callers of the double-encoding repair: a text as written, or a text     *)
(* whose UTF-8 bytes were read in a single-byte encoding one or more times. *)
(***************************************************************************)
MaxFixChars == 3

MaxBaseChars == 2

MaxMisdecodings == 3

\* A, A-tilde, one quarter, u-umlaut, U+0083, A-circumflex, the florin sign
FixAlphabet == {65, ATilde, 188, 252, 131, 194, 402}

\* the characters of the texts that get mis-decoded: A, u-umlaut, sharp s
BaseAlphabet == {65, 252, 223}

\* the UTF-8 bytes of text read in a single-byte encoding
Misdecode(text, reading) == iconvDecode(Utf8Encode(text), reading).val

RECURSIVE MisdecodeTimes(_, _, _)
MisdecodeTimes(text, reading, n) ==
    IF n = 0 THEN text ELSE MisdecodeTimes(Misdecode(text, reading), reading, n - 1)

InitFix ==
    /\ \/ \E text \in SeqsUpTo(FixAlphabet, MaxFixChars) :
              input = [text |-> text, original |-> text, times |-> 0, reading |-> "none"]
       \/ \E original \in SeqsUpTo(BaseAlphabet, MaxBaseChars) \ {<<>>},
             n \in 1..MaxMisdecodings,
             reading \in {"iso-8859-1", "windows-1252"} :
              input = [text |-> MisdecodeTimes(original, reading, n),
                       original |-> original, times |-> n, reading |-> reading]
    /\ out = <<>>
    /\ lastIndex = InitialLastIndex
    /\ correction = NoCorrection

CallFix ==
    /\ ~Called("fix")
    /\ Return("fix", Ok(fixDoubleEncodedUTF8(input.text)))

CallFixAgain ==
    /\ Called("fix")
    /\ ~Called("fixAgain")
    /\ Return("fixAgain", Ok(fixDoubleEncodedUTF8(out["fix"].val)))

CallFixTable ==
    /\ ~Called("fixTable")
    /\ Return("fixTable", Ok(fixDoubleEncodedUTF8Table(input.text)))

CallFixTableAgain ==
    /\ Called("fixTable")
    /\ ~Called("fixTableAgain")
    /\ Return("fixTableAgain", Ok(fixDoubleEncodedUTF8Table(out["fixTable"].val)))

NextFix ==
    \/ CallFix
    \/ CallFixAgain
    \/ CallFixTable
    \/ CallFixTableAgain

SpecFix == InitFix /\ [][NextFix]_vars

(***************************************************************************)
(* Callers of the language detection: a value that is no string, a blank   *)
(* string, a few words, or the words as the text of an SRT block.          *)
(***************************************************************************)
MaxWords == 3

\* the, but, la, u-umlaut
LangWords == {<<116, 104, 101>>, <<98, 117, 116>>, <<108, 97>>, <<252>>}

PlainTexts == {join(ws, <<32>>) : ws \in SeqsUpTo(LangWords, MaxWords) \ {<<>>}}

\* '', ' ', '\n\t'
BlankTexts == {<<>>, <<32>>, <<10, 9>>}

\* '1\n00:00:01,000 --> 00:00:02,000'
SRTBlockHead ==
    <<49, 10, 48, 48, 58, 48, 48, 58, 48, 49, 44, 48, 48, 48, 32, 45, 45, 62, 32,
      48, 48, 58, 48, 48, 58, 48, 50, 44, 48, 48, 48>>

\* one block with a word as its text, followed or not by a second block
\* without text; a block with no text, with a blank text line; a lone time stamp
SRTShapedTexts ==
    {SRTBlockHead \o <<10>> \o text : text \in LangWords}
        \cup {SRTBlockHead \o <<10>> \o text \o <<10, 10>> \o SRTBlockHead : text \in LangWords}
        \cup {SRTBlockHead, SRTBlockHead \o <<10, 32>>, SubSeq(SRTBlockHead, 3, 14)}

LangInputs == NonStrings \cup {Str(text) : text \in PlainTexts \cup BlankTexts \cup SRTShapedTexts}

InitLang ==
    /\ input \in LangInputs
    /\ out = <<>>
    /\ lastIndex = InitialLastIndex
    /\ correction = NoCorrection

CallDetectLanguage ==
    /\ ~Called("detectLanguage")
    /\ LET call == detectLanguage(input, lastIndex)
       IN  /\ out' = ("detectLanguage" :> call.result) @@ out
           /\ lastIndex' = call.lastIndex
    /\ UNCHANGED <<input, correction>>

CallExtractTextFromSRT ==
    /\ ~Called("extractTextFromSRT")
    /\ Return("extractTextFromSRT", extractTextFromSRT(input))

NextLang ==
    \/ CallDetectLanguage
    \/ CallExtractTextFromSRT

SpecLang == InitLang /\ [][NextLang]_vars

(***************************************************************************)
(* The parser and the text extraction of the language detection on the     *)
(* same SRT texts                                                          *)
(***************************************************************************)
CallExtractTextOfSRT ==
    /\ ~Called("extractTextFromSRT")
    /\ Return("extractTextFromSRT",
              extractTextFromSRT(IF IsString(input) THEN Str(CodeUnits(input.s))
                                 ELSE input))

NextExtract ==
    \/ CallParseSRT
    \/ CallExtractTextOfSRT

SpecExtract == InitSRT /\ [][NextExtract]_vars

(***************************************************************************)
(* Callers of generateBase64Output: a value that is no string, or a string *)
(* of an optional BOM, a header and a few lines.                           *)
(***************************************************************************)
MaxBase64Lines == 2

Base64LineVocabulary == {<<>>, <<"1">>, <<"H", "i">>, <<UUML>>, <<LONE>>, VTTLine}

Base64Inputs ==
    {p \o h \o join(ls, <<LF>>) :
        p \in VTTPrefixes,
        h \in {WEBVTTHeader \o <<LF, LF>>, WEBVTTHeader \o <<LF>>, <<>>},
        ls \in SeqsUpTo(Base64LineVocabulary, MaxBase64Lines)}

InitBase64 ==
    /\ \/ \E s \in Base64Inputs : input = Str(s)
       \/ input \in NonStrings
    /\ out = <<>>
    /\ lastIndex = InitialLastIndex
    /\ correction = NoCorrection

CallGenerateBase64Output ==
    /\ ~Called("generateBase64Output")
    /\ Return("generateBase64Output", generateBase64Output(input))

NextBase64 ==
    \/ CallGenerateBase64Output
    \/ CallValidateVTTFormat

SpecBase64 == InitBase64 /\ [][NextBase64]_vars

(***************************************************************************)
(* Callers of the correction: correctSubtitleText(content, maxRetries) or  *)
(* correctWithFallback(content) is called once, on a client that is        *)
(* available or not; the API answers every call with some outcome.  A step *)
(* is the code between two awaits.                                         *)
(***************************************************************************)
MaxRetries == 3

\* ' Ho\n', 'Ho', ' ', '', null
APIContents ==
    {Str(<<" ", "H", "o", LF>>), Str(<<"H", "o">>), Str(<<" ">>), Str(<<>>), JSNull}

\* 'Server error', 'rate limit reached', 'Rate limit exceeded', no message
APIMessages ==
    {Str(<<"S", "e", "r", "v", "e", "r">>),
     Str(<<"r", "a", "t", "e", " ", "l", "i", "m", "i", "t">>),
     Str(<<"R", "a", "t", "e", " ", "l", "i", "m", "i", "t">>),
     JSUndefined}

APIOutcomes ==
    {Responds(c) : c \in APIContents} \cup {NoChoices}
        \cup {Rejects(st, code, m) :
                 st \in {NoStatus, 401, 429, 500, 503},
                 code \in {"none", "ECONNRESET", "ETIMEDOUT"},
                 m \in APIMessages}

InitCorrect ==
    /\ \E content \in {Str(<<"H", "i">>), Str(<<>>), JSNull},
          available \in BOOLEAN,
          entry \in {"correctSubtitleText", "correctWithFallback"},
          maxRetries \in (-1)..MaxRetries :
           /\ entry = "correctWithFallback" => maxRetries = DefaultMaxRetries
           /\ input = [content |-> content, available |-> available, entry |-> entry,
                       maxRetries |-> maxRetries]
    /\ out = <<>>
    /\ lastIndex = InitialLastIndex
    /\ correction = NoCorrection

\* the outcome of the call of the API just answered is on record: the one of
\* the first call, and the one of the last
Seen(outcome) ==
    [correction EXCEPT !.last = outcome,
                       !.first = IF correction.calls = 1 THEN outcome ELSE @]

\* correctSubtitleText settles, by a return (Ok) or a rejection (Throw);
\* correctWithFallback, when it is the one called, settles in the same step
Settle(settled, last) ==
    /\ out' = IF input.entry = "correctWithFallback"
              THEN ("correctWithFallback" :> Ok(Fallback(input.content, settled)))
                       @@ ("correctSubtitleText" :> settled) @@ out
              ELSE ("correctSubtitleText" :> settled) @@ out
    /\ correction' = [Seen(last) EXCEPT !.pc = "done"]

\* the loop test and, when it passes, the call of the API
Attempt(attempt, sleeps) ==
    IF attempt <= input.maxRetries
    THEN /\ correction' = [correction EXCEPT !.pc = "calling", !.attempt = attempt,
                                            !.calls = @ + 1, !.sleeps = sleeps]
         /\ UNCHANGED out
    ELSE Settle(Ok(Failed(MsgUnexpected)), correction.last)

\* the call, up to the first await
BeginCorrection ==
    /\ correction.pc = "idle"
    /\ IF ~input.available THEN Settle(Ok(Failed(MsgNotAvailable)), NoOutcome)
       ELSE IF Falsy(input.content) \/ ~IsString(input.content)
       THEN Settle(Ok(Failed(MsgInvalidSRT)), NoOutcome)
       ELSE Attempt(0, 0)
    /\ UNCHANGED <<input, lastIndex>>

\* the API answers: the rest of the try block and the catch block
APIAnswers ==
    /\ correction.pc = "calling"
    /\ \E outcome \in APIOutcomes :
           IF Succeeds(outcome)
           THEN Settle(Ok(Corrected(trim(outcome.content.s))), outcome)
           ELSE LET error == CaughtError(outcome)
                IN  IF CatchThrows(error) THEN Settle(Throw(MsgTypeError), outcome)
                    ELSE IF correction.attempt = input.maxRetries \/ ~isRetryable(error)
                    THEN Settle(Ok(Failed(MsgFailedAfter(correction.attempt + 1, error))),
                                outcome)
                    ELSE /\ correction' =
                                [Seen(outcome) EXCEPT !.pc = "sleeping", !.sleeps = @ + 1,
                                                      !.delay = BackoffDelay(correction.attempt)]
                         /\ UNCHANGED out
    /\ UNCHANGED <<input, lastIndex>>

\* the sleep is over: attempt++ and the next round of the loop
WakeUp ==
    /\ correction.pc = "sleeping"
    /\ Attempt(correction.attempt + 1, correction.sleeps)
    /\ UNCHANGED <<input, lastIndex>>

NextCorrect ==
    \/ BeginCorrection
    \/ APIAnswers
    \/ WakeUp

SpecCorrect == InitCorrect /\ [][NextCorrect]_vars

(***************************************************************************)
(* Requests to /convert: a decoded content of blocks, a client that is     *)
(* available or not, what correctWithFallback resolves with, and the       *)
(* format asked for.                                                       *)
(***************************************************************************)
MaxConvertBlocks == 2

\* 'the' and 'la' at the same time code, a block with minutes 99, a block
\* whose index is no number
ConvertBlocks ==
    { <<<<"1">>, TSLine, <<"t", "h", "e">>>>,
      <<<<"2">>, TSLine, <<"l", "a">>>>,
      <<<<"1">>, TSLineOutOfRange, <<"H", "i">>>>,
      <<<<"H", "i">>, TSLine, <<"H", "i">>>> }

ConvertTexts ==
    {join(BlockLines(bs), <<LF>>) : bs \in SeqsUpTo(ConvertBlocks, MaxConvertBlocks)}

\* what the API answers, trimmed: a text parseSRT accepts, one it accepts
\* with a time code generateVTT rejects, a text without index, a plain
\* sentence
CorrectedTexts ==
    { join(<<<<"1">>, TSLine, <<"l", "a">>>>, <<LF>>),
      join(<<<<"1">>, TSLineOutOfRange, <<"l", "a">>>>, <<LF>>),
      join(<<TSLine, <<"l", "a">>>>, <<LF>>),
      <<"l", "a">> }

\* what correctWithFallback resolves with for the content
CorrectionResults(srtContent) ==
    {Fallback(srtContent, Ok(Corrected(t))) : t \in CorrectedTexts}
        \cup {Fallback(srtContent, Ok(Failed(MsgFailedAfter(1, NoChoices)))),
              Fallback(srtContent, Throw(MsgTypeError))}

\* the requests for a content; without a client nothing is asked of the
\* correction service, and the result the model holds then is not read
ConvertRequestsFor(t) ==
    {[srtContent |-> Str(t), available |-> TRUE, correctionResult |-> r,
      includeBase64 |-> b] : r \in CorrectionResults(Str(t)), b \in BOOLEAN}
        \cup {[srtContent |-> Str(t), available |-> FALSE,
               correctionResult |-> Fallback(Str(t), Throw(MsgTypeError)),
               includeBase64 |-> b] : b \in BOOLEAN}

ConvertRequests == UNION {ConvertRequestsFor(t) : t \in ConvertTexts}

InitConvert ==
    /\ input \in ConvertRequests
    /\ out = <<>>
    /\ lastIndex = InitialLastIndex
    /\ correction = NoCorrection

CallConvert ==
    /\ ~Called("convert")
    /\ LET call == convert(input.srtContent, input.available, input.correctionResult,
                           input.includeBase64, lastIndex)
       IN  /\ out' = ("convert" :> call.response) @@ out
           /\ lastIndex' = call.lastIndex
    /\ UNCHANGED <<input, correction>>

NextConvert == CallConvert

SpecConvert == InitConvert /\ [][NextConvert]_vars

(***************************************************************************)
(* server.js, app.post('/convert'), from the upload on.  The handler is an *)
(* async function: it runs from the request to its first await, the call   *)
(* of correctWithFallback, and from the settlement of that call to the     *)
(* response.  A request without a client, or one answered before stage 4,  *)
(* runs to its response at once.                                           *)
(***************************************************************************)
\* the values assigned to processingStage, in the order of the assignments
ProcessingStages ==
    <<"upload", "encoding", "validation", "correction", "language-detection",
      "conversion", "complete">>

StageNumber(processingStage) ==
    CHOOSE k \in 1..Len(ProcessingStages) : ProcessingStages[k] = processingStage

\* the values processingStage took after ProcessingStages[from - 1] until the
\* handler answered at the given stage
StagesUntil(from, processingStage) ==
    SubSeq(ProcessingStages, from, StageNumber(processingStage))

ModelChars ==
    {PrintableASCII[k] : k \in 1..Len(PrintableASCII)}
        \cup {LF, CR, TAB, UUML, LONE, BOM, "<FFFD>"}

\* the character of the model with the code unit
fromCharCode(cu) == CHOOSE c \in ModelChars : charCode(c) = cu

\* buffer.toString('utf8') for a buffer of characters of the model
BufferToString(b) ==
    SubSeq([i \in 1..Len(Utf8Decode(b)) |-> fromCharCode(Utf8Decode(b)[i])],
           1, Len(Utf8Decode(b)))

\* stage 2: the content of the uploaded buffer
DecodeUpload(file) ==
    Str(BufferToString(convertToUTF8(file, detectEncoding(file)).val))

\* what the handler holds when it stops: the stages processingStage took,
\* the decoded content, the content correctWithFallback was called with (if
\* it was), the response (if it answered), the lastIndex table
Handled(stages, srtContent, awaited, call) ==
    [out       |-> ("stages" :> stages) @@ ("srtContent" :> srtContent)
                      @@ (IF awaited THEN "correctWithFallback" :> srtContent
                          ELSE "response" :> call.response),
     lastIndex |-> call.lastIndex]

\* stages 3 and 4 for the decoded content: the answer to an invalid
\* content, the call of correctWithFallback, or without a client the rest
\* of the handler
ValidateAndCorrect(srtContent, available, includeBase64, indexes) ==
    IF validateSRTFormat(srtContent) /\ available
    THEN Handled(StagesUntil(1, "correction"), srtContent, TRUE, [lastIndex |-> indexes])
    ELSE Handled(StagesUntil(1, convert(srtContent, available, JSUndefined,
                                        includeBase64, indexes).response.stage),
                 srtContent, FALSE,
                 convert(srtContent, available, JSUndefined, includeBase64, indexes))

\* stages 1 to 4, to the first await or to the response
handleUpload(file, available, includeBase64, indexes) ==
    IF file = JSUndefined \/ file.b = <<>>
    THEN Handled(StagesUntil(1, "upload"), JSUndefined, FALSE,
                 [response  |-> Response(400, "json", "File Upload Error", "upload",
                                         <<>>, NoData),
                  lastIndex |-> indexes])
    ELSE ValidateAndCorrect(DecodeUpload(file), available, includeBase64, indexes)

\* the rest of the handler once correctWithFallback resolved
AfterAwait(srtContent, correctionResult, includeBase64, indexes) ==
    Continue(Reparse(Parsed(srtContent, AfterCorrection(srtContent, TRUE, correctionResult))),
             includeBase64, indexes)

\* a block whose text is a number line and a line of VTT times
SequenceNumberBlock == <<<<"0">>, TSLine, <<"1">>, VTTLine>>

\* 'für' in a block
UmlautBlock == <<<<"1">>, TSLine, <<"f", UUML, "r">>>>

UploadTexts ==
    ConvertTexts \cup {join(SequenceNumberBlock, <<LF>>), join(UmlautBlock, <<LF>>)}

\* no file, the texts in UTF-8 (the empty text is an empty file), with a
\* byte-order mark, and in Latin-1
Uploads ==
    {JSUndefined}
        \cup {Buffer(BufferFromUtf8(t)) : t \in UploadTexts}
        \cup {Buffer(UTF8BOM \o BufferFromUtf8(join(UmlautBlock, <<LF>>))),
              Buffer(BufferFromLatin1(join(UmlautBlock, <<LF>>)))}

InitPipeline ==
    /\ input \in [file : Uploads, available : BOOLEAN, includeBase64 : BOOLEAN]
    /\ out = <<>>
    /\ lastIndex = InitialLastIndex
    /\ correction = NoCorrection

\* the request arrives: the handler runs to its first await or to its
\* response
ReceiveUpload ==
    /\ ~Called("stages")
    /\ out' = handleUpload(input.file, input.available, input.includeBase64,
                           lastIndex).out @@ out
    /\ lastIndex' = handleUpload(input.file, input.available, input.includeBase64,
                                 lastIndex).lastIndex
    /\ UNCHANGED <<input, correction>>

RespondAfter(call) ==
    /\ out' = ("response" :> call.response)
                  @@ ("stages" :> out["stages"]
                                     \o StagesUntil(StageNumber("correction") + 1,
                                                    call.response.stage))
                  @@ out
    /\ lastIndex' = call.lastIndex

\* correctWithFallback resolves: the handler runs to its response
CorrectionResolves ==
    /\ Called("correctWithFallback")
    /\ ~Called("response")
    /\ \E r \in CorrectionResults(out["srtContent"]) :
           RespondAfter(AfterAwait(out["srtContent"], r, input.includeBase64, lastIndex))
    /\ UNCHANGED <<input, correction>>

NextPipeline ==
    \/ ReceiveUpload
    \/ CorrectionResolves

SpecPipeline == InitPipeline /\ [][NextPipeline]_vars

(***************************************************************************)
(* Two requests at a time: the components are called for two contents, a   *)
(* and b, in any order, detectLanguage any number of times.  Node runs one *)
(* call at a time, so an interleaving is a sequence of whole calls.  What  *)
(* the calls share is the lastIndex of the patterns of LANGUAGE_PATTERNS;  *)
(* the expressions of the other components are created by each call.       *)
(***************************************************************************)
MaxDetections == 3

\* 'the', and 'la' after a u umlaut, as the text of one block, and the
\* plain text 'the la'
SharedTexts ==
    {join(<<<<"1">>, TSLine, w>>, <<LF>>) : w \in {<<"t", "h", "e">>, <<UUML, " ", "l", "a">>}}
        \cup {<<"t", "h", "e", " ", "l", "a">>}

Requests == {"a", "b"}

Key(op, k) == op \o " " \o k

\* the calls of detectLanguage so far, each with its request and its result
Detections == IF Called("detectLanguage") THEN out["detectLanguage"] ELSE <<>>

InitShared ==
    /\ \E ta \in SharedTexts, tb \in SharedTexts :
           /\ ta # tb
           /\ input = [a |-> Str(ta), b |-> Str(tb)]
    /\ out = <<>>
    /\ lastIndex = InitialLastIndex
    /\ correction = NoCorrection

SharedDetectLanguage(k) ==
    /\ Len(Detections) < MaxDetections
    /\ LET call == detectLanguage(Str(CodeUnits(input[k].s)), lastIndex)
       IN  /\ out' = ("detectLanguage" :>
                          Append(Detections, [request |-> k, result |-> call.result])) @@ out
           /\ lastIndex' = call.lastIndex
    /\ UNCHANGED <<input, correction>>

SharedParseSRT(k) ==
    /\ ~Called(Key("parseSRT", k))
    /\ Return(Key("parseSRT", k), parseSRT(input[k]))

SharedGenerateVTT(k) ==
    /\ ~Called(Key("generateVTT", k))
    /\ Called(Key("parseSRT", k))
    /\ out[Key("parseSRT", k)].ok
    /\ Return(Key("generateVTT", k), generateVTT(Array(out[Key("parseSRT", k)].val)))

SharedValidateVTTFormat(k) ==
    /\ ~Called(Key("validateVTTFormat", k))
    /\ Called(Key("generateVTT", k))
    /\ out[Key("generateVTT", k)].ok
    /\ Return(Key("validateVTTFormat", k), validateVTTFormat(Str(out[Key("generateVTT", k)].val)))

SharedValidateBunnyStreamCompliance(k) ==
    /\ ~Called(Key("validateBunnyStreamCompliance", k))
    /\ Called(Key("generateVTT", k))
    /\ out[Key("generateVTT", k)].ok
    /\ Return(Key("validateBunnyStreamCompliance", k),
              Ok(validateBunnyStreamCompliance(Str(out[Key("generateVTT", k)].val))))

NextShared ==
    \E k \in Requests :
        \/ SharedDetectLanguage(k)
        \/ SharedParseSRT(k)
        \/ SharedGenerateVTT(k)
        \/ SharedValidateVTTFormat(k)
        \/ SharedValidateBunnyStreamCompliance(k)

SpecShared == InitShared /\ [][NextShared]_vars

(***************************************************************************)
(* Properties                                                              *)
(***************************************************************************)
\* the lines of a text, as the tests split it
LinesOf(s) == split(s, LF)

\* a digits-only line immediately followed by a line that holds a VTT
\* timestamp pair
DigitsLineBeforeTimestamp(s) ==
    \E i \in 1..(Len(LinesOf(s)) - 1) :
        /\ IsAllDigits(trim(LinesOf(s)[i]))
        /\ HasVTTTimestampPair(LinesOf(s)[i + 1])

\* a comma-separated timestamp HH:MM:SS,mmm anywhere in s
HasCommaTimestamp(s) == \E i \in 1..Len(s) : MatchTimestampAt(s, i, ",", FALSE)

\* s has the form DD:DD:DD,DDD
HasSRTForm(s) ==
    /\ Len(s) = 12
    /\ \A i \in {1, 2, 4, 5, 7, 8, 10, 11, 12} : IsDigit(s[i])
    /\ s[3] = ":" /\ s[6] = ":" /\ s[9] = ","

\* s has the form DD:DD:DD,DDD with minutes and seconds 00-59
InRangeSRTTimestamp(s) ==
    /\ HasSRTForm(s)
    /\ 10 * DigitValue(s[4]) + DigitValue(s[5]) <= 59
    /\ 10 * DigitValue(s[7]) + DigitValue(s[8]) <= 59

\* the same digits with the separator at position 9 a period / a comma
WithSeparator(s, sep) == [i \in 1..Len(s) |-> IF i = 9 THEN sep ELSE s[i]]

ParsedRecords == out["parseSRT"].val

\* C1 as stated: for every text parseSRT accepts, generateVTT(parseSRT(text))
\* returns a string that starts with WEBVTT and an empty line, holds no
\* digits-only line followed by a timestamp line and no comma timestamp.
C1_AsStated ==
    Called("generateVTT") =>
        /\ out["generateVTT"].ok
        /\ startsWith(out["generateVTT"].val, WEBVTTHeader \o <<LF, LF>>)
        /\ ~DigitsLineBeforeTimestamp(out["generateVTT"].val)
        /\ ~HasCommaTimestamp(out["generateVTT"].val)

\* C1 amended: generateVTT(parseSRT(text)) returns exactly when every parsed
\* timestamp has minutes and seconds 00-59; what it returns starts with WEBVTT
\* and an empty line, and holds a digits-only line followed by a timestamp
\* line, or a comma timestamp, only where the text of a subtitle holds one.
C1_GeneratedFromParsed ==
    Called("generateVTT") =>
        /\ out["generateVTT"].ok <=>
              \A k \in 1..Len(ParsedRecords) :
                  /\ InRangeSRTTimestamp(ParsedRecords[k].startTime.s)
                  /\ InRangeSRTTimestamp(ParsedRecords[k].endTime.s)
        /\ out["generateVTT"].ok =>
              /\ startsWith(out["generateVTT"].val, WEBVTTHeader \o <<LF, LF>>)
              /\ DigitsLineBeforeTimestamp(out["generateVTT"].val) =>
                    \E k \in 1..Len(ParsedRecords) :
                        DigitsLineBeforeTimestamp(ParsedRecords[k].text.s)
              /\ HasCommaTimestamp(out["generateVTT"].val) =>
                    \E k \in 1..Len(ParsedRecords) :
                        HasCommaTimestamp(ParsedRecords[k].text.s)

\* two parsed blocks, converted
C1_Witness ==
    /\ Called("generateVTT")
    /\ out["generateVTT"].ok
    /\ Len(ParsedRecords) = 2
    /\ ~HasCommaTimestamp(out["generateVTT"].val)

\* a record of the data model with convertible timestamps: a string text and
\* timestamps DD:DD:DD,DDD with minutes and seconds 00-59
IsConvertibleRecord(e) ==
    /\ e.t = "object"
    /\ IsString(e.startTime) /\ InRangeSRTTimestamp(e.startTime.s)
    /\ IsString(e.endTime) /\ InRangeSRTTimestamp(e.endTime.s)
    /\ IsString(e.text)

\* the document the VTT generator is to produce for such records
RECURSIVE ExpectedCues(_)
ExpectedCues(a) ==
    IF a = <<>> THEN <<>>
    ELSE WithSeparator(a[1].startTime.s, ".") \o <<" ", "-", "-", ">", " ">>
         \o WithSeparator(a[1].endTime.s, ".") \o <<LF>> \o a[1].text.s \o <<LF, LF>>
         \o ExpectedCues(Tail(a))

\* C2: for a non-empty array of records with convertible timestamps,
\* generateVTT returns exactly the header, an empty line and, for each record
\* in input order, the timestamp line with periods, the text unchanged and an
\* empty line; the index of a record is not emitted.
C2_ExactOutput ==
    (/\ Called("generateVTT")
     /\ input.t = "array"
     /\ input.a # <<>>
     /\ \A k \in 1..Len(input.a) : IsConvertibleRecord(input.a[k]))
    => out["generateVTT"] =
           Ok(<<"W", "E", "B", "V", "T", "T", LF, LF>> \o ExpectedCues(input.a))

\* two convertible records, one with a text of several lines
C2_Witness ==
    /\ Called("generateVTT")
    /\ input.t = "array"
    /\ Len(input.a) = 2
    /\ \A k \in 1..2 : IsConvertibleRecord(input.a[k])
    /\ input.a[2].text.s = TextLines
    /\ out["generateVTT"].ok

\* the non-blank lines of a text
NonBlankLines(lines) == Cardinality({i \in 1..Len(lines) : trim(lines[i]) # <<>>})

\* the lines a list of records accounts for: an index line, a timestamp line
\* and the non-blank lines of the text of each
RECURSIVE LinesAccountedFor(_)
LinesAccountedFor(records) ==
    IF records = <<>> THEN 0
    ELSE 2 + NonBlankLines(LinesOf(records[1].text.s)) + LinesAccountedFor(Tail(records))

\* C3: validateSRTFormat returns true exactly when parseSRT returns; every
\* failure of parseSRT is an error whose message starts with 'Invalid SRT
\* format'; and the records parseSRT returns account for every non-blank line
\* of the text (no partial list).
C3_ValidateIsParse ==
    /\ (Called("validateSRTFormat") /\ Called("parseSRT")) =>
           (out["validateSRTFormat"].val <=> out["parseSRT"].ok)
    /\ (Called("parseSRT") /\ ~out["parseSRT"].ok) =>
           (out["parseSRT"].val = <<>> /\ out["parseSRT"].err[1] = "Invalid SRT format: ")
    /\ (Called("parseSRT") /\ out["parseSRT"].ok) =>
           LinesAccountedFor(ParsedRecords)
               = NonBlankLines(LinesOf(NormalizeLineEndings(input.s)))

\* a text whose first block is well formed and whose second is not: both
\* operations reject it
C3_Witness ==
    /\ Called("validateSRTFormat")
    /\ Called("parseSRT")
    /\ IsString(input)
    /\ startsWith(input.s, <<"1", LF>> \o TSLine \o <<LF, "H", "i", LF, LF>>)
    /\ ~out["parseSRT"].ok
    /\ ~out["validateSRTFormat"].val

\* an element generateVTT cannot process
IsOffending(e) ==
    \/ e.t # "object"
    \/ ~IsString(e.startTime) \/ ~InRangeSRTTimestamp(e.startTime.s)
    \/ ~IsString(e.endTime) \/ ~InRangeSRTTimestamp(e.endTime.s)
    \/ e.text.t = "undefined"

FirstOffending(a) ==
    CHOOSE k \in 1..Len(a) : IsOffending(a[k]) /\ \A j \in 1..(k - 1) : ~IsOffending(a[j])

\* C4: generateVTT fails on a value that is no array and on an empty array
\* with the two messages of the specification; when some element is missing
\* startTime, endTime or text or has a timestamp that cannot be converted,
\* it throws an error that names the array position of the first such
\* element and returns no VTT text; otherwise it returns.
C4_FailFast ==
    Called("generateVTT") =>
        IF input.t # "array"
        THEN out["generateVTT"] = Throw(<<"Invalid input: subtitles must be an array">>)
        ELSE IF input.a = <<>>
        THEN out["generateVTT"] = Throw(<<"No subtitles provided for VTT generation">>)
        ELSE IF \E k \in 1..Len(input.a) : IsOffending(input.a[k])
        THEN /\ ~out["generateVTT"].ok
             /\ out["generateVTT"].val = <<>>
             /\ Len(out["generateVTT"].err) >= 2
             /\ out["generateVTT"].err[2] = ToString(FirstOffending(input.a) - 1)
        ELSE out["generateVTT"].ok

\* a valid record followed by one with a malformed timestamp
C4_Witness ==
    /\ Called("generateVTT")
    /\ input.t = "array"
    /\ Len(input.a) = 2
    /\ IsConvertibleRecord(input.a[1])
    /\ input.a[2].t = "object" /\ input.a[2].endTime = Str(EndMalformed)
    /\ ~out["generateVTT"].ok
    /\ out["generateVTT"].err[2] = "1"

\* C5: convertTimestamp accepts exactly the strings DD:DD:DD,DDD with minutes
\* and seconds 00-59; it returns the same characters with the comma replaced
\* by a period, so that the input is recovered from the result (injective);
\* every other non-empty string fails with 'Invalid SRT timestamp format' and
\* every empty or non-string input with 'Invalid timestamp: must be a
\* non-empty string'.
C5_ConvertTimestamp ==
    Called("convertTimestamp") =>
        IF ~IsString(input) \/ input.s = <<>>
        THEN out["convertTimestamp"]
                 = Throw(<<"Invalid timestamp: must be a non-empty string">>)
        ELSE IF InRangeSRTTimestamp(input.s)
        THEN /\ out["convertTimestamp"] = Ok(WithSeparator(input.s, "."))
             /\ WithSeparator(out["convertTimestamp"].val, ",") = input.s
        ELSE /\ ~out["convertTimestamp"].ok
             /\ out["convertTimestamp"].err[1] = "Invalid SRT timestamp format: "

\* hours 99, minutes and seconds 59
C5_Witness ==
    /\ Called("convertTimestamp")
    /\ input = Str(<<"9", "9", ":", "5", "9", ":", "5", "9", ",", "9", "9", "9">>)
    /\ out["convertTimestamp"].ok

\* the checks of validateVTTFormat, each on its own
VTTCheck(v, k) ==
    LET s == IF IsString(v) THEN v.s ELSE <<>>
    IN  CASE k = 1 -> IsString(v) /\ s # <<>>
          [] k = 2 -> ~startsWith(s, <<BOM>>)
          [] k = 3 -> startsWith(s, <<"W", "E", "B", "V", "T", "T", LF>>)
          [] k = 4 -> startsWith(s, <<"W", "E", "B", "V", "T", "T", LF, LF>>)
          [] k = 5 -> HasVTTTimestampPair(s)
          [] k = 6 -> ~DigitsLineBeforeTimestamp(s)

VTTCheckMessage(k) ==
    CASE k = 1 -> "Invalid VTT content: must be a non-empty string"
      [] k = 2 -> "VTT content must not contain BOM (Byte Order Mark)"
      [] k = 3 -> "VTT content must start with \"WEBVTT\" header followed by newline"
      [] k = 4 -> "VTT content must have empty line after WEBVTT header"
      [] k = 5 -> "No valid VTT timestamps found in content"
      [] k = 6 -> "VTT content must not contain subtitle sequence numbers for Bunny Stream compatibility"

FailingVTTChecks(v) == {k \in 1..6 : ~VTTCheck(v, k)}

EarliestFailing(v) ==
    CHOOSE k \in FailingVTTChecks(v) : \A j \in FailingVTTChecks(v) : k <= j

\* C6: validateVTTFormat returns true exactly when none of its six checks
\* fails, and otherwise throws the message of the earliest failing check in
\* the order (a) non-empty string, (b) no leading BOM, (c) WEBVTT and a line
\* feed, (d) an empty line after it, (e) a timestamp pair, (f) no digits-only
\* line before a timestamp line.
C6_EarliestCheck ==
    Called("validateVTTFormat") =>
        out["validateVTTFormat"] =
            IF FailingVTTChecks(input) = {} THEN Ok(TRUE)
            ELSE Throw(<<VTTCheckMessage(EarliestFailing(input))>>)

\* a byte-order mark and, behind it, further failing checks
C6_Witness ==
    /\ Called("validateVTTFormat")
    /\ {2, 3, 5} \subseteq FailingVTTChecks(input)
    /\ 1 \notin FailingVTTChecks(input)
    /\ out["validateVTTFormat"].err
           = <<"VTT content must not contain BOM (Byte Order Mark)">>

\* C7: whenever validateVTTFormat throws, validateBunnyStreamCompliance
\* returns a report with errors and isValid = false for the same input; and
\* isValid = true implies that validateVTTFormat returns true.
C7_StrictAndReportAgree ==
    (Called("validateVTTFormat") /\ Called("validateBunnyStreamCompliance")) =>
        /\ ~out["validateVTTFormat"].ok =>
              /\ out["validateBunnyStreamCompliance"].ok
              /\ out["validateBunnyStreamCompliance"].val.errors # <<>>
              /\ ~out["validateBunnyStreamCompliance"].val.isValid
        /\ out["validateBunnyStreamCompliance"].val.isValid =>
              out["validateVTTFormat"] = Ok(TRUE)

\* a document with CRLF line endings: every check of the map is true and the
\* strict validator throws
C7_Witness ==
    /\ Called("validateVTTFormat")
    /\ Called("validateBunnyStreamCompliance")
    /\ ~out["validateVTTFormat"].ok
    /\ \A n \in CheckNames : out["validateBunnyStreamCompliance"].val.compliance[n] = "true"
    /\ ~out["validateBunnyStreamCompliance"].val.isValid

\* b begins with the UTF-8 byte-order mark EF BB BF
BeginsWithBOM(b) == Len(b) >= 3 /\ SubSeq(b, 1, 3) = <<239, 187, 191>>

\* C8: for every buffer and every declared or detected encoding, the bytes
\* convertToUTF8 returns never begin with the UTF-8 byte-order mark EF BB BF,
\* also when the input carries more than one leading byte-order mark.
C8_NoLeadingBOM ==
    Called("convertToUTF8") => ~BeginsWithBOM(out["convertToUTF8"].val)

\* the encoding names iconv-lite decodes
RecognizedEncodings == {"utf8", "iso-8859-1", "windows-1252"}

\* C9: convertToUTF8 never throws; for a null, undefined or empty buffer it
\* returns an empty buffer; and when decoding fails, as with an encoding name
\* that is not recognized, it returns the input bytes without one leading
\* UTF-8 byte-order mark if they have one, and the input bytes otherwise.
C9_NeverThrows ==
    Called("convertToUTF8") =>
        /\ out["convertToUTF8"].ok
        /\ (input.buffer.t # "buffer" \/ input.buffer.b = <<>>) =>
               out["convertToUTF8"].val = <<>>
        /\ (/\ input.buffer.t = "buffer"
            /\ input.buffer.b # <<>>
            /\ input.encoding \notin RecognizedEncodings \cup {NoEncoding}) =>
               out["convertToUTF8"].val =
                   IF BeginsWithBOM(input.buffer.b)
                   THEN SubSeq(input.buffer.b, 4, Len(input.buffer.b))
                   ELSE input.buffer.b

\* an encoding name that is not recognized, on bytes behind a byte-order mark
C9_Witness ==
    /\ Called("convertToUTF8")
    /\ input.encoding = "invalid-encoding"
    /\ BeginsWithBOM(input.buffer.b)
    /\ Len(input.buffer.b) > 3
    /\ out["convertToUTF8"] = Ok(SubSeq(input.buffer.b, 4, Len(input.buffer.b)))

\* the converted bytes, decoded as UTF-8, are the original text
RoundTrips == Utf8Decode(out["convertToUTF8"].val) = input.text

BeginsWithAnyBOM(b) ==
    \/ BeginsWithBOM(b)
    \/ Len(b) >= 2 /\ (SubSeq(b, 1, 2) = <<255, 254>> \/ SubSeq(b, 1, 2) = <<254, 255>>)

\* the bytes are not pure ASCII and decode as UTF-8 without a replacement
\* character
ReadsAsUTF8(b) ==
    /\ \E i \in 1..Len(b) : b[i] > 127
    /\ \A i \in 1..Len(Utf8Decode(b)) : Utf8Decode(b)[i] # 65533

\* the texts of an encoding the workflow can tell from the other encodings
Distinguishable(text, encoding) ==
    /\ \A i \in 1..Len(text) : text[i] # 195
    /\ encoding = "utf8" =>
           /\ \A i \in 1..Len(text) : text[i] # 65533
           /\ text # <<>> => text[1] # 65279
    /\ encoding \in {"iso-8859-1", "windows-1252"} =>
           /\ ~BeginsWithAnyBOM(iconvEncode(text, encoding))
           /\ ~ReadsAsUTF8(iconvEncode(text, encoding))
    /\ encoding = "iso-8859-1" =>
           \A i \in 1..Len(text) : text[i] \notin Win1252Chars

NoMisdecoding(text) ==
    \/ \A i \in 1..Len(text) : text[i] < 128
    \/ \E i \in 1..Len(Utf8Decode(Latin1Encode(text))) :
           Utf8Decode(Latin1Encode(text))[i] = 65533

\* C11: the double-encoding repair leaves already-correct text unchanged,
\* fix(t) = t for every correctly decoded text t, and applying it twice gives
\* the same as applying it once, fix(fix(t)) = fix(t) for every text t.
C11_FixKeepsCorrectText ==
    /\ (Called("fix") /\ input.times = 0 /\ NoMisdecoding(input.text)) =>
           out["fix"].val = input.text
    /\ Called("fixAgain") => out["fixAgain"].val = out["fix"].val

\* the score of every profile for the text that detectLanguage reads from
\* the input of the caller
ProfileScores ==
    [l \in 1..Len(LANGUAGE_PATTERNS) |->
        calculateLanguageScore(TextContent(input), LANGUAGE_PATTERNS[l],
                               InitialLastIndex[l]).score]

\* C12: in every result that detectLanguage returns, detected is true exactly
\* when confidence is at least 0.1; a result that is not detected has the
\* language null, a detected one a language of the same confidence; there
\* are at most three suggestions, each of a confidence of at least 0.05, in
\* non-increasing order of confidence; the confidence is the greatest
\* score of all profiles and the first suggestion has it whenever it is at
\* least 0.05.
C12_ResultShape ==
    (Called("detectLanguage") /\ out["detectLanguage"].ok) =>
        LET r == out["detectLanguage"].val
            n == Len(r.suggestions)
        IN  /\ r.detected = AtLeast(r.confidence, Fraction(1, 10))
            /\ ~r.detected => r.language = JSNull
            /\ r.detected => (r.language # JSNull /\ r.language.confidence = r.confidence)
            /\ n <= 3
            /\ \A i \in 1..n : AtLeast(r.suggestions[i].confidence, Fraction(1, 20))
            /\ \A i \in 1..(n - 1) :
                   AtLeast(r.suggestions[i].confidence, r.suggestions[i + 1].confidence)
            /\ (r.suggestions # <<>> \/ AtLeast(r.confidence, Fraction(1, 20)))
                   => (n > 0 /\ r.suggestions[1].confidence = r.confidence)
            /\ TrimCP(TextContent(input)) # <<>> =>
                   /\ \A l \in 1..Len(LANGUAGE_PATTERNS) : AtLeast(r.confidence, ProfileScores[l])
                   /\ \E l \in 1..Len(LANGUAGE_PATTERNS) : r.confidence = ProfileScores[l]

\* a detected language with three suggestions, the last of a smaller
\* confidence than the first and a later profile scoring more than an earlier
C12_Witness ==
    /\ Called("detectLanguage")
    /\ out["detectLanguage"].ok
    /\ out["detectLanguage"].val.detected
    /\ Len(out["detectLanguage"].val.suggestions) = 3
    /\ ~AtLeast(out["detectLanguage"].val.suggestions[3].confidence,
                out["detectLanguage"].val.suggestions[1].confidence)
    /\ out["detectLanguage"].val.language.code # "en"

\* the text of a string input is blank: nothing but white space is left of
\* it, after the extraction when it looks like SRT
BlankText == IsString(input) /\ TrimCP(TextContent(input)) = <<>>

\* C13 as stated: detectLanguage throws for an input that is no string, and
\* returns the result of no detection for every string whose text is blank.
C13_AsStated ==
    Called("detectLanguage") =>
        /\ ~IsString(input) => out["detectLanguage"] = Throw(MsgInvalidContent)
        /\ BlankText => out["detectLanguage"] = Ok(NotDetected)

\* C13: detectLanguage throws 'Invalid content' for an input that is no
\* string and for the empty string; for every string that is not empty and
\* whose text is blank it returns the result of no detection, and leaves
\* the patterns as they were.
C13_InvalidOrBlank ==
    Called("detectLanguage") =>
        /\ (~IsString(input) \/ input.s = <<>>) =>
               out["detectLanguage"] = Throw(MsgInvalidContent)
        /\ (BlankText /\ input.s # <<>>) =>
               (out["detectLanguage"] = Ok(NotDetected) /\ lastIndex = InitialLastIndex)

\* an SRT block without text has been given and reported as not detected
C13_Witness ==
    /\ Called("detectLanguage")
    /\ input = Str(SRTBlockHead)
    /\ out["detectLanguage"] = Ok(NotDetected)

\* Buffer.byteLength(s, 'utf8'): one byte for a code unit below U+0080, two
\* below U+0800, three for any other that is not half of a pair
Utf8ByteLength(s) ==
    Len(s) + Cardinality({i \in 1..Len(s) : charCode(s[i]) >= 128})
           + Cardinality({i \in 1..Len(s) : charCode(s[i]) >= 2048})

\* Buffer.from(content, 'base64').toString('utf8') === the input
DecodesToInput ==
    Utf8Decode(Base64Decode(out["generateBase64Output"].val.content)) = CodeUnits(input.s)

\* what the claim says of an input that is no string or empty, and of one
\* that validateVTTFormat rejects; the sizes of a result
Base64RejectsAndSizes ==
    /\ (~IsString(input) \/ input.s = <<>>) =>
           out["generateBase64Output"] = Throw(<<MsgBase64>>)
    /\ (IsString(input) /\ input.s # <<>> /\ ~validateVTTFormat(input).ok) =>
           out["generateBase64Output"] = validateVTTFormat(input)
    /\ (IsString(input) /\ input.s # <<>> /\ validateVTTFormat(input).ok) =>
           /\ out["generateBase64Output"].ok
           /\ out["generateBase64Output"].val.size.original = Utf8ByteLength(input.s)
           /\ out["generateBase64Output"].val.size.encoded =
                  Len(out["generateBase64Output"].val.content)

\* C14 as stated: generateBase64Output rejects an empty or non-string input
\* with its own message, rejects what validateVTTFormat rejects, and
\* otherwise returns a content that Base64-decodes to exactly the input
\* text, with the sizes of the UTF-8 bytes and of the content.
C14_AsStated ==
    Called("generateBase64Output") =>
        /\ Base64RejectsAndSizes
        /\ out["generateBase64Output"].ok => DecodesToInput

\* C14: as stated, but the content decodes to the input text only when the
\* input holds no unpaired surrogate; an unpaired surrogate comes back as U+FFFD.
C14_Base64OfWellFormed ==
    Called("generateBase64Output") =>
        /\ Base64RejectsAndSizes
        /\ out["generateBase64Output"].ok =>
               IF \E i \in 1..Len(input.s) : IsSurrogate(charCode(input.s[i]))
               THEN Utf8Decode(Base64Decode(out["generateBase64Output"].val.content))
                        = [i \in 1..Len(input.s) |->
                              IF IsSurrogate(charCode(input.s[i])) THEN 65533
                              ELSE charCode(input.s[i])]
               ELSE DecodesToInput

\* a compliant content with a character of two UTF-8 bytes has been encoded
\* and decodes to itself
C14_Witness ==
    /\ Called("generateBase64Output")
    /\ out["generateBase64Output"].ok
    /\ \E i \in 1..Len(input.s) : input.s[i] = UUML
    /\ out["generateBase64Output"].val.size.original > Len(input.s)
    /\ DecodesToInput

\* C16: correctWithFallback never rejects and always resolves with success
\* true.  When the last call of the API yielded a correction, usedFallback
\* is false and correctedText is that correction (the content of the
\* response, trimmed); in every other case usedFallback is true,
\* correctedText is the input itself and error is the reason of the failure:
\* the client is not available, the content is invalid, the API failed after
\* some attempts, or the call of correctSubtitleText rejected.
FallbackReasons ==
    {MsgNotAvailable, MsgInvalidSRT, MsgTypeError}
        \cup {MsgFailedAfter(n, CaughtError(o)) : n \in 1..(DefaultMaxRetries + 1),
                                                  o \in APIOutcomes}

RetryableAsClaimed(error) ==
    \/ error.status = 429
    \/ /\ IsString(error.message)
       /\ \/ includes(error.message.s, <<"r", "a", "t", "e", " ", "l", "i", "m", "i", "t">>)
          \/ includes(error.message.s, <<"R", "a", "t", "e", " ", "l", "i", "m", "i", "t">>)
    \/ error.status >= 500
    \/ error.code = "ECONNRESET"
    \/ error.code = "ETIMEDOUT"

\* the rules of calling, retrying and sleeping
RetryDiscipline ==
    /\ correction.calls <= Maximum(0, input.maxRetries + 1)
    /\ correction.calls = IF correction.pc = "idle" \/ correction.calls = 0
                          THEN 0 ELSE correction.attempt + 1
    /\ correction.pc = "sleeping" =>
           /\ ~Succeeds(correction.last)
           /\ RetryableAsClaimed(CaughtError(correction.last))
           /\ correction.sleeps = correction.calls
           /\ correction.delay = Minimum(1000 * (2 ^ (correction.calls - 1)), 30000)
    /\ (correction.pc \in {"calling", "done"} /\ correction.calls > 0) =>
           correction.sleeps = correction.calls - 1
    /\ (correction.calls > 1 \/ correction.pc = "sleeping") =>
           /\ ~Succeeds(correction.first)
           /\ RetryableAsClaimed(CaughtError(correction.first))
    /\ (correction.pc = "done" /\ Succeeds(correction.last)) =>
           /\ Called("correctSubtitleText")
           /\ out["correctSubtitleText"] = Ok(Corrected(trim(correction.last.content.s)))
    /\ Succeeds(correction.last) => correction.pc = "done"

\* success is false and the error counts the calls
FailedAfterCalls ==
    /\ Called("correctSubtitleText")
    /\ out["correctSubtitleText"].ok
    /\ ~out["correctSubtitleText"].val.success
    /\ Len(out["correctSubtitleText"].val.error) >= 3
    /\ SubSeq(out["correctSubtitleText"].val.error, 1, 3) =
           <<"OpenAI API failed after ", correction.calls, " attempts: ">>

\* the claim as stated: every end without a correction is a counted failure
C17_AsStated ==
    /\ RetryDiscipline
    /\ (correction.pc = "done" /\ ~Succeeds(correction.last)) => FailedAfterCalls

C17_RetryAndFailure ==
    /\ RetryDiscipline
    /\ (correction.pc = "done" /\ ~Succeeds(correction.last)) =>
           IF correction.calls = 0
           THEN out["correctSubtitleText"] =
                    Ok(Failed(IF ~input.available THEN MsgNotAvailable
                              ELSE IF input.content # Str(<<"H", "i">>) THEN MsgInvalidSRT
                              ELSE MsgUnexpected))
           ELSE IF /\ CaughtError(correction.last).status # 429
                   /\ ~IsString(CaughtError(correction.last).message)
           THEN ~out["correctSubtitleText"].ok
           ELSE /\ FailedAfterCalls
                /\ out["correctSubtitleText"].val.error =
                       <<"OpenAI API failed after ", correction.calls, " attempts: ">>
                           \o MessageText(CaughtError(correction.last))
                /\ \/ correction.calls = input.maxRetries + 1
                   \/ ~RetryableAsClaimed(CaughtError(correction.last))

\* two rate limit failures, two sleeps of one and two seconds, then a
\* third call that yields a correction
C17_Witness ==
    /\ correction.pc = "done"
    /\ input.maxRetries = 3
    /\ correction.calls = 3
    /\ correction.sleeps = 2
    /\ correction.delay = 2000
    /\ correction.first = Rejects(429, "none", JSUndefined)
    /\ out["correctSubtitleText"] = Ok(Corrected(<<"H", "o">>))

\* C15: in the /convert pipeline the text returned by the correction service
\* is used for VTT generation only after parseSRT accepts it.  If parseSRT
\* rejects it, the request ends as it ends without correction: the VTT is
\* generated from the parse of the original text, and the request succeeds
\* unless that generation fails; the JSON response (format base64) reports
\* correctionApplied false and carries the correction warning 'Corrected
\* content was invalid, used original', the file response is the VTT content
\* alone.
CorrectionReturned == input.available /\ ~input.correctionResult.usedFallback

CorrectedTextRejected ==
    CorrectionReturned /\ ~parseSRT(input.correctionResult.correctedText).ok

\* the response to the same request when no correction service is configured
WithoutCorrection ==
    convert(input.srtContent, FALSE, input.correctionResult, input.includeBase64,
            InitialLastIndex).response

CorrectionWarning == [type |-> "correction", message |-> MsgCorrectedInvalid]

VTTOf(content) == generateVTT(Array(parseSRT(content).val)).val

\* the corrected text is used only when accepted, else the original is
OnlyAcceptedTextIsUsed ==
    (Called("convert") /\ out["convert"].status = 200) =>
        /\ (CorrectionReturned /\ ~CorrectedTextRejected) =>
               out["convert"].vttContent = VTTOf(input.correctionResult.correctedText)
        /\ (~CorrectionReturned \/ CorrectedTextRejected) =>
               out["convert"].vttContent = VTTOf(input.srtContent)
        /\ out["convert"].sent = "json" =>
               out["convert"].data.stats.correctionApplied =
                   (CorrectionReturned /\ ~CorrectedTextRejected)

\* the claim as stated: after a rejected correction the request succeeds and
\* the response reports correctionApplied false with a correction warning
C15_AsStated ==
    /\ OnlyAcceptedTextIsUsed
    /\ (Called("convert") /\ validateSRTFormat(input.srtContent) /\ CorrectedTextRejected) =>
           /\ out["convert"].status = 200
           /\ out["convert"].data.success
           /\ ~out["convert"].data.stats.correctionApplied
           /\ \E i \in 1..Len(out["convert"].data.warnings) :
                  out["convert"].data.warnings[i] = CorrectionWarning

C15_ReparseFallback ==
    /\ OnlyAcceptedTextIsUsed
    /\ (Called("convert") /\ validateSRTFormat(input.srtContent) /\ CorrectedTextRejected) =>
           /\ out["convert"].status = WithoutCorrection.status
           /\ out["convert"].vttContent = WithoutCorrection.vttContent
           /\ out["convert"].sent = WithoutCorrection.sent
           /\ out["convert"].status = 200 <=> generateVTT(Array(parseSRT(input.srtContent).val)).ok
           /\ (out["convert"].status = 200 /\ input.includeBase64) =>
                  /\ out["convert"].sent = "json"
                  /\ ~out["convert"].data.stats.correctionApplied
                  /\ out["convert"].data.warnings[1] = CorrectionWarning
                  /\ out["convert"].data.stats.subtitleCount =
                         WithoutCorrection.data.stats.subtitleCount
           /\ (out["convert"].status = 200 /\ ~input.includeBase64) =>
                  out["convert"] = Response(200, "file", "", "complete", VTTOf(input.srtContent),
                                           NoData)

\* the API answered a text without index for a content of two blocks: the
\* JSON response holds the VTT of the two original blocks and the warning
C15_Witness ==
    /\ Called("convert")
    /\ CorrectedTextRejected
    /\ input.includeBase64
    /\ out["convert"].status = 200
    /\ out["convert"].data.stats.subtitleCount = 2
    /\ ~out["convert"].data.stats.correctionApplied
    /\ out["convert"].data.warnings = <<CorrectionWarning>>
    /\ out["convert"].vttContent = VTTOf(input.srtContent)

\* C18: the core components hold no mutable shared state.  In every
\* interleaving and repetition of calls of detectLanguage, parseSRT,
\* generateVTT, validateVTTFormat and validateBunnyStreamCompliance for two
\* contents, the result of a call depends on its own argument only: two
\* calls of detectLanguage for the same content give the same result,
\* whatever was called in between; every other result is the one its
\* argument gives; and every pattern of the language table is left with
\* lastIndex 0, so that it carries nothing to the next call.
PipelineOf(k) ==
    /\ Called(Key("parseSRT", k)) => out[Key("parseSRT", k)] = parseSRT(input[k])
    /\ Called(Key("generateVTT", k)) =>
           out[Key("generateVTT", k)] = generateVTT(Array(parseSRT(input[k]).val))
    /\ Called(Key("validateVTTFormat", k)) =>
           out[Key("validateVTTFormat", k)] =
               validateVTTFormat(Str(generateVTT(Array(parseSRT(input[k]).val)).val))
    /\ Called(Key("validateBunnyStreamCompliance", k)) =>
           out[Key("validateBunnyStreamCompliance", k)] =
               Ok(validateBunnyStreamCompliance(
                      Str(generateVTT(Array(parseSRT(input[k]).val)).val)))

C18_NoSharedState ==
    /\ \A i \in 1..Len(lastIndex) : \A j \in 1..Len(lastIndex[i]) : lastIndex[i][j] = 0
    /\ \A i \in 1..Len(Detections) : \A j \in 1..Len(Detections) :
           Detections[i].request = Detections[j].request =>
               Detections[i].result = Detections[j].result
    /\ \A k \in Requests : PipelineOf(k)

\* detectLanguage ran for a, then for b, then for a again, with the pipeline
\* of b run as well, and the first and third results are the same detection
C18_Witness ==
    /\ Len(Detections) = 3
    /\ Detections[1].request = "a"
    /\ Detections[2].request = "b"
    /\ Detections[3].request = "a"
    /\ Detections[1].result.ok
    /\ Detections[1].result.val.detected
    /\ Detections[1].result = Detections[3].result
    /\ Detections[1].result # Detections[2].result
    /\ Called(Key("validateBunnyStreamCompliance", "b"))

\* C19: detectEncoding applies its rules in order, first match wins: empty
\* or absent buffer -> utf8; UTF-8 BOM -> utf8; UTF-16 BOM of either byte
\* order -> utf8; the buffer decodes as UTF-8 without replacement characters
\* -> utf8 (which covers every buffer without high bytes); otherwise one of
\* the 27 bytes of 0x80-0x9F that Windows-1252 defines is present ->
\* windows-1252; otherwise one of the 5 bytes it leaves undefined (0x81,
\* 0x8D, 0x8F, 0x90, 0x9D) is present, so only the Latin-1 decode succeeds
\* -> iso-8859-1; otherwise both single-byte decodes succeed -> windows-1252.
UndefinedIn1252 == {129, 141, 143, 144, 157}

DetectedBuffer == input.buffer.b

HasByteIn(S) == \E i \in 1..Len(DetectedBuffer) : DetectedBuffer[i] \in S

\* the first four rules, which all answer utf8
AnswersUTF8 ==
    \/ input.buffer.t # "buffer"
    \/ DetectedBuffer = <<>>
    \/ BeginsWithAnyBOM(DetectedBuffer)
    \/ \A i \in 1..Len(Utf8Decode(DetectedBuffer)) : Utf8Decode(DetectedBuffer)[i] # 65533

\* the claim as stated: any byte of 0x80-0x9F makes the answer windows-1252
C19_AsStated ==
    Called("detectEncoding") =>
        out["detectEncoding"].val =
            IF AnswersUTF8 THEN "utf8"
            ELSE IF HasByteIn(128..159) THEN "windows-1252"
            ELSE IF HasByteIn(160..255) THEN "windows-1252"
            ELSE "utf8"

C19_RuleOrder ==
    Called("detectEncoding") =>
        out["detectEncoding"].val =
            IF AnswersUTF8 THEN "utf8"
            ELSE IF HasByteIn((128..159) \ UndefinedIn1252) THEN "windows-1252"
            ELSE IF HasByteIn(UndefinedIn1252) THEN "iso-8859-1"
            ELSE "windows-1252"

\* the byte 0x81 before the byte 0xC3: no UTF-8, no indicator, and only the
\* Latin-1 decode is free of replacement characters
C19_Witness ==
    /\ Called("detectEncoding")
    /\ DetectedBuffer = <<129, 195>>
    /\ HasReplacement(Windows1252Decode(DetectedBuffer))
    /\ ~HasReplacement(Latin1Decode(DetectedBuffer))
    /\ out["detectEncoding"].val = "iso-8859-1"

\* C20: the double-encoding repair is applied repeatedly, a bounded number
\* of times, until no artifact remains or no change occurs, so that a text
\* mis-decoded twice or three times (its UTF-8 bytes read as Latin-1,
\* re-encoded and read as Latin-1 again) is restored to the original text;
\* the repair terminates on every input, that is, every call returns a text.
MisdecodedMoreThanOnce == input.times \in {2, 3} /\ input.reading = "iso-8859-1"

C20_RepeatedRepair ==
    /\ (Called("fix") /\ MisdecodedMoreThanOnce) => out["fix"].val = input.original
    /\ (Called("fixTable") /\ MisdecodedMoreThanOnce) => out["fixTable"].val = input.original
    /\ \A op \in {"fix", "fixTable"} : Called(op) => out[op].ok

(***************************************************************************)
(* The blank lines of a subtitle text                                      *)
(***************************************************************************)
\* the lines of the input, as the parser splits them
InputLines == SRTLines(input.s)

\* the first line that is not blank: where the first block starts
FirstBlockLine == SkipEmptyLines(InputLines, 1)

\* a blank line followed by a digits-only line
BlankBeforeNumber(lines, i) ==
    /\ trim(lines[i]) = <<>>
    /\ i + 1 <= Len(lines)
    /\ IsAllDigits(trim(lines[i + 1]))

\* a blank line followed by a line that is neither blank nor digits-only
\* and then by a timestamp line
BlankBeforeBadIndex(lines, i) ==
    /\ trim(lines[i]) = <<>>
    /\ i + 2 <= Len(lines)
    /\ trim(lines[i + 1]) # <<>>
    /\ ~IsAllDigits(trim(lines[i + 1]))
    /\ IsSRTTimestampLine(trim(lines[i + 2]))

\* the blank lines after the head of the first block that are followed by a
\* digits-only line
EndingBlanks ==
    {i \in (FirstBlockLine + 2)..Len(InputLines) : BlankBeforeNumber(InputLines, i)}

\* the k-th of them
NthEndingBlank(k) ==
    CHOOSE i \in EndingBlanks : Cardinality({j \in EndingBlanks : j < i}) = k - 1

\* the text between the head of the k-th block and its ending blank line (the
\* end of the input for the last block), joined and trimmed
TextBetweenEndingBlanks(k) ==
    LET first == IF k = 1 THEN FirstBlockLine ELSE NthEndingBlank(k - 1) + 1
        last == IF k <= Cardinality(EndingBlanks) THEN NthEndingBlank(k) - 1
                ELSE Len(InputLines)
    IN  trim(join(SubSeq(InputLines, first + 2, last), <<LF>>))

\* the blocks of an accepted text are delimited by exactly the blank lines
\* that are followed by a digits-only line
BlocksEndAtEndingBlanks ==
    (Called("parseSRT") /\ out["parseSRT"].ok) =>
        /\ Len(ParsedRecords) = Cardinality(EndingBlanks) + 1
        /\ \A k \in 1..Len(ParsedRecords) :
               ParsedRecords[k].text.s = TextBetweenEndingBlanks(k)

\* parseSRT failed with 'Invalid subtitle index ... at line n'
IndexErrorAt(n) ==
    /\ Called("parseSRT")
    /\ out["parseSRT"].err = <<"Invalid SRT format: ", "Invalid subtitle index at line ",
                               ToString(n), " (expected number)">>

\* C21 as stated: a blank line ends the text of a block only if the line
\* after it is digits-only; every other blank line is kept in the text and
\* parsing continues without error, so that an index error can only arise
\* at the first block.
C21_AsStated ==
    /\ BlocksEndAtEndingBlanks
    /\ (Called("parseSRT") /\ IsString(input)) =>
           \A n \in 1..Len(InputLines) : IndexErrorAt(n) => n = FirstBlockLine

\* C21 amended: a blank line ends the text of a block exactly when the line
\* after it is digits-only, and the text of each record is what lies between
\* these blank lines, joined and trimmed, inner blank lines included; a blank
\* line followed by a line that is neither blank nor digits-only and then by
\* a timestamp line is not kept: the parse fails there with 'Invalid subtitle
\* index', and no text that holds such a blank line after the head of its
\* first block is accepted.
C21_BlankLineLookahead ==
    /\ BlocksEndAtEndingBlanks
    /\ (Called("parseSRT") /\ IsString(input)) =>
           /\ \A n \in 1..Len(InputLines) :
                  (IndexErrorAt(n) /\ n # FirstBlockLine) =>
                      (n > 1 /\ BlankBeforeBadIndex(InputLines, n - 1))
           /\ out["parseSRT"].ok =>
                  \A i \in (FirstBlockLine + 2)..Len(InputLines) :
                      ~BlankBeforeBadIndex(InputLines, i)

\* one record whose text keeps an empty line between two lines
C21_Witness ==
    /\ Called("parseSRT")
    /\ out["parseSRT"].ok
    /\ Len(ParsedRecords) = 1
    /\ ParsedRecords[1].text.s = <<"H", "i", LF, LF, " ", "H", "i">>

(***************************************************************************)
(* Format and range of timestamps                                          *)
(***************************************************************************)
\* the number two digits stand for
TwoDigits(s, i) == 10 * DigitValue(s[i]) + DigitValue(s[i + 1])

\* the message of an error holds the part m
ErrorHolds(r, m) == ~r.ok /\ \E k \in 1..Len(r.err) : r.err[k] = m

\* C22: the parser checks timestamps for format only and the generator
\* checks format and range.  parseTimestamp and parseSRT accept every value
\* DD:DD:DD,DDD, minutes or seconds above 59 included, and nothing else;
\* convertTimestamp, and generateVTT on the parsed record that carries the
\* value, return when minutes and seconds are 00-59 and otherwise fail with
\* 'Invalid SRT timestamp format'.
C22_FormatAndRange ==
    IsString(input) =>
        /\ Called("parseTimestamp") =>
               IF HasSRTForm(input.s)
               THEN /\ out["parseTimestamp"].ok
                    /\ out["parseTimestamp"].val.minutes = TwoDigits(input.s, 4)
                    /\ out["parseTimestamp"].val.seconds = TwoDigits(input.s, 7)
               ELSE ~out["parseTimestamp"].ok
        /\ Called("parseSRT") =>
               IF HasSRTForm(input.s)
               THEN /\ out["parseSRT"].ok
                    /\ ParsedRecords[1].startTime = input
               ELSE ~out["parseSRT"].ok
        /\ (Called("convertTimestamp") /\ HasSRTForm(input.s)) =>
               IF InRangeSRTTimestamp(input.s)
               THEN out["convertTimestamp"].ok
               ELSE /\ ~out["convertTimestamp"].ok
                    /\ out["convertTimestamp"].err[1] = "Invalid SRT timestamp format: "
        /\ Called("generateVTT") =>
               IF InRangeSRTTimestamp(input.s)
               THEN out["generateVTT"].ok
               ELSE ErrorHolds(out["generateVTT"], "Invalid SRT timestamp format: ")

\* minutes 60 and seconds 99: accepted by parseTimestamp and parseSRT,
\* rejected by convertTimestamp and generateVTT
C22_Witness ==
    /\ input = Str(<<"0", "0", ":", "6", "0", ":", "9", "9", ",", "0", "0", "0">>)
    /\ Called("parseTimestamp") /\ out["parseTimestamp"].ok
    /\ out["parseTimestamp"].val.minutes = 60
    /\ out["parseTimestamp"].val.seconds = 99
    /\ Called("parseSRT") /\ out["parseSRT"].ok
    /\ Called("convertTimestamp") /\ ~out["convertTimestamp"].ok
    /\ Called("generateVTT") /\ ~out["generateVTT"].ok

(***************************************************************************)
(* The records of the parser                                               *)
(***************************************************************************)
\* the line that holds the index of the k-th block
BlockHeadLine(k) == IF k = 1 THEN FirstBlockLine ELSE NthEndingBlank(k - 1) + 1

\* s neither starts nor ends with white space
HasNoOuterSpace(s) == s = <<>> \/ (~IsSpace(s[1]) /\ ~IsSpace(s[Len(s)]))

\* the k-th record carries the number of the head line of the k-th block and
\* the two timestamps of the line after it, has timestamps DD:DD:DD,DDD and
\* a text that is not empty and has no white space around it
RecordOfBlock(k) ==
    LET r == ParsedRecords[k]
        timestampLine == trim(InputLines[BlockHeadLine(k) + 1])
    IN  /\ r.index \in Nat
        /\ r.index = parseInt(trim(InputLines[BlockHeadLine(k)]))
        /\ HasSRTForm(r.startTime.s)
        /\ HasSRTForm(r.endTime.s)
        /\ r.startTime.s = SubSeq(timestampLine, 1, 12)
        /\ r.endTime.s = SubSeq(timestampLine, Len(timestampLine) - 11, Len(timestampLine))
        /\ r.text.s # <<>>
        /\ HasNoOuterSpace(r.text.s)

\* C23 as stated: every record parseSRT returns has an integer index >= 1,
\* timestamps DD:DD:DD,DDD without surrounding white space and a non-empty
\* text without leading or trailing white space; there is one record per
\* block, in the order of the blocks.
C23_AsStated ==
    (Called("parseSRT") /\ out["parseSRT"].ok) =>
        /\ Len(ParsedRecords) = Cardinality(EndingBlanks) + 1
        /\ \A k \in 1..Len(ParsedRecords) :
               RecordOfBlock(k) /\ ParsedRecords[k].index >= 1

\* C23 amended: the same, with an index that is an integer >= 0: the index
\* line is any line of digits, 0 included.
C23_RecordShape ==
    (Called("parseSRT") /\ out["parseSRT"].ok) =>
        /\ Len(ParsedRecords) = Cardinality(EndingBlanks) + 1
        /\ \A k \in 1..Len(ParsedRecords) :
               RecordOfBlock(k) /\ ParsedRecords[k].index >= 0

\* two blocks numbered 2 and 1, in this order, the first with an inner blank
\* line: two records in the order of the blocks
C23_Witness ==
    /\ Called("parseSRT")
    /\ out["parseSRT"].ok
    /\ Len(ParsedRecords) = 2
    /\ ParsedRecords[1].index = 2
    /\ ParsedRecords[2].index = 1
    /\ ParsedRecords[1].text.s = <<"H", "i", LF, LF, " ", "H", "i">>

(***************************************************************************)
(* The compliance report                                                   *)
(***************************************************************************)
ComplianceReport == out["validateBunnyStreamCompliance"].val

\* the message that belongs to a check of the map
CheckMessage(n) ==
    CASE n = "noBOM" -> MsgBOM
      [] n = "hasWebVTTHeader" -> MsgHeader
      [] n = "hasEmptyLineAfterHeader" -> MsgEmptyLine
      [] n = "validTimestamps" -> MsgNoTimestamps
      [] n = "noSequenceNumbers" -> MsgSequenceNumbers
      [] n = "properEncoding" -> "Content is not valid UTF-8"

InErrors(m) == \E k \in 1..Len(ComplianceReport.errors) : ComplianceReport.errors[k] = m

\* C24: for every string input the check map of validateBunnyStreamCompliance
\* holds only boolean values, every check that is false has its message in
\* errors, errors holds no message of a check that is true, and isValid is
\* true exactly when all checks are true and errors is empty.
C24_ReportIsConsistent ==
    (Called("validateBunnyStreamCompliance") /\ IsString(input)) =>
        /\ \A n \in CheckNames : ComplianceReport.compliance[n] \in {"true", "false"}
        /\ \A n \in CheckNames :
               ComplianceReport.compliance[n] # "true" => InErrors(CheckMessage(n))
        /\ \A n \in CheckNames :
               ComplianceReport.compliance[n] = "true" => ~InErrors(CheckMessage(n))
        /\ ComplianceReport.isValid <=>
               /\ \A n \in CheckNames : ComplianceReport.compliance[n] = "true"
               /\ ComplianceReport.errors = <<>>

\* the text without its style issues: every CR LF a line feed, every tab a
\* space, and the white space around a first line WEBVTT removed
WithoutStyleIssues(s) ==
    LET marked == [i \in 1..Len(s) |->
                     [c |-> IF s[i] = TAB THEN " " ELSE s[i],
                      keep |-> ~(s[i] = CR /\ i < Len(s) /\ s[i + 1] = LF)]]
        kept == SelectSeq(marked, LAMBDA m : m.keep)
        lines == split([i \in 1..Len(kept) |-> kept[i].c], LF)
    IN  IF trim(lines[1]) = WEBVTTHeader
        THEN join(<<WEBVTTHeader>> \o Tail(lines), <<LF>>)
        ELSE join(lines, <<LF>>)

\* a text the strict validator accepts and UTF-8 can encode
IsCompliantText(s) ==
    /\ FailingVTTChecks(Str(s)) = {}
    /\ \A i \in 1..Len(s) : s[i] # LONE

InWarnings(m) ==
    \E k \in 1..Len(ComplianceReport.warnings) : ComplianceReport.warnings[k] = m

\* C25: validateBunnyStreamCompliance reports CR LF line endings, tab
\* characters and white space around the WEBVTT token as warnings, and these
\* are not fatal: a text that is compliant once these three are removed has
\* an empty errors list and isValid = true.
C25_WarningsAreNotFatal ==
    (Called("validateBunnyStreamCompliance") /\ IsString(input)) =>
        /\ includes(input.s, <<CR, LF>>) => InWarnings(MsgCRLF)
        /\ includes(input.s, <<TAB>>) => InWarnings(MsgTab)
        /\ (/\ trim(SplitLines(input.s)[1]) = WEBVTTHeader
            /\ SplitLines(input.s)[1] # WEBVTTHeader) => InWarnings(MsgHeaderSpace)
        /\ IsCompliantText(WithoutStyleIssues(input.s)) =>
               /\ ComplianceReport.errors = <<>>
               /\ ComplianceReport.isValid

(***************************************************************************)
(* The text the language detection reads                                   *)
(***************************************************************************)
\* the lines of a text that are not blank, each trimmed
TrimmedNonBlankLines(text) ==
    SelectSeq([i \in 1..Len(LinesOf(text)) |-> trim(LinesOf(text)[i])],
              LAMBDA line : line # <<>>)

\* those of every record, in order
RECURSIVE TextLinesOfRecords(_)
TextLinesOfRecords(records) ==
    IF records = <<>> THEN <<>>
    ELSE TrimmedNonBlankLines(records[1].text.s) \o TextLinesOfRecords(Tail(records))

\* C26: for every text parseSRT accepts, extractTextFromSRT returns the
\* non-blank lines of the text of every parsed record, each trimmed, in
\* order and joined by single spaces: no index line, no timestamp line of a
\* block, and no text line dropped.
C26_ExtractAgreesWithParser ==
    (/\ Called("parseSRT")
     /\ out["parseSRT"].ok
     /\ Called("extractTextFromSRT")) =>
        out["extractTextFromSRT"]
            = Ok(Str(CodeUnits(join(TextLinesOfRecords(ParsedRecords), <<" ">>))))

(***************************************************************************)
(* Well-formed UTF-8                                                       *)
(***************************************************************************)
\* the bytes are the UTF-8 encoding of some text: decoding replaces nothing,
\* so that encoding what was decoded gives the bytes back
IsWellFormedUTF8(b) == Utf8Encode(Utf8Decode(b)) = b

\* C28: detectEncoding returns 'utf8' for every buffer that is well-formed
\* UTF-8, whatever characters it encodes.
C28_WellFormedIsUTF8 ==
    (Called("detectEncoding") /\ IsWellFormedUTF8(out["encode"].val)) =>
        out["detectEncoding"].val = "utf8"

(***************************************************************************)
(* The language of the response                                            *)
(***************************************************************************)
\* the SRT text whose parse gave the records of the generated VTT: the
\* corrected text when the correction was applied, the upload otherwise
ConvertedText ==
    IF out["convert"].data.stats.correctionApplied
    THEN input.correctionResult.correctedText
    ELSE input.srtContent

\* what detectLanguage makes of a text in a request of its own
LanguageOf(content) ==
    LET detection == detectLanguage(Str(CodeUnits(content.s)), InitialLastIndex)
    IN  IF detection.result.ok THEN detection.result.val ELSE NotDetected

\* C29: the language the response of /convert reports is the one detected
\* from the SRT text whose parse produced the generated VTT, also when the
\* corrected text was rejected by the re-parse and the original records
\* were used.
C29_LanguageOfConvertedText ==
    (Called("convert") /\ out["convert"].data.success) =>
        out["convert"].data.language = LanguageOf(ConvertedText)

(***************************************************************************)
(* The Base64 packaging of /convert.                                       *)
(***************************************************************************)
Base64Requested == Called("convert") /\ input.includeBase64

WarningTypes(data) == {data.warnings[i].type : i \in 1..Len(data.warnings)}

\* C30: when Base64 output is requested and the generated VTT passed the
\* compliance gate (the request is answered 200), generateBase64Output has
\* not failed: the response is the JSON body, it holds the Base64 of the
\* UTF-8 bytes of the VTT and the bunnyStream data, and no warning of the
\* type 'base64'
C30_Base64CannotFail ==
    (Base64Requested /\ out["convert"].status = 200)
        => /\ out["convert"].sent = "json"
           /\ out["convert"].data.success
           /\ out["convert"].data.base64
                  = Base64Encode(BufferFromUtf8(out["convert"].vttContent))
           /\ out["convert"].data.base64 # <<>>
           /\ out["convert"].data.bunnyStream # JSUndefined
           /\ out["convert"].data.bunnyStream.ready
           /\ "base64" \notin WarningTypes(out["convert"].data)

\* a request for Base64 whose VTT passed the gate, with another warning
C30_Witness ==
    /\ Base64Requested
    /\ out["convert"].status = 200
    /\ out["convert"].data.base64 # <<>>
    /\ "correction" \in WarningTypes(out["convert"].data)

(***************************************************************************)
(* The stages of /convert.                                                 *)
(***************************************************************************)
HasUpload == input.file # JSUndefined /\ input.file.b # <<>>

\* the VTT of the records of the uploaded content, and its compliance report
UploadedVTT == generateVTT(Array(parseSRT(out["srtContent"]).val))

UploadedVTTCompliance == validateBunnyStreamCompliance(Str(UploadedVTT.val))

IsPrefixOf(s, t) == Len(s) <= Len(t) /\ s = SubSeq(t, 1, Len(s))

GenerationError ==
    /\ out["response"].status = 500
    /\ out["response"].error = "VTT Generation Error"
    /\ out["response"].stage = "conversion"

\* C27: processingStage takes the stages in the order upload, encoding,
\* validation, correction, language-detection, conversion, complete, and
\* each stage works on what the one before it produced: the content that
\* is validated is the decoded upload, and the correction service is called
\* with a validated content only.  An upload whose content fails the
\* validation is answered 400 at stage 'validation' and correctWithFallback
\* is not called.  A response 200 is sent only for a VTT whose compliance
\* report isValid; a request that passed the validation and is not answered
\* 200 ends with 500 'VTT Generation Error' at stage 'conversion'.
C27_StagesInOrder ==
    Called("stages") =>
        /\ out["stages"] # <<>>
        /\ IsPrefixOf(out["stages"], ProcessingStages)
        /\ Called("response") => out["response"].stage = out["stages"][Len(out["stages"])]
        /\ ~HasUpload =>
               /\ out["response"].status = 400
               /\ out["response"].stage = "upload"
               /\ ~Called("correctWithFallback")
        /\ HasUpload => out["srtContent"] = DecodeUpload(input.file)
        /\ Called("correctWithFallback") =>
               /\ input.available
               /\ out["correctWithFallback"] = DecodeUpload(input.file)
               /\ validateSRTFormat(out["correctWithFallback"])
               /\ IsPrefixOf(StagesUntil(1, "correction"), out["stages"])
        /\ (HasUpload /\ ~validateSRTFormat(out["srtContent"])) =>
               /\ out["response"].status = 400
               /\ out["response"].error = "Format Validation Error"
               /\ out["response"].stage = "validation"
               /\ ~Called("correctWithFallback")
        /\ (HasUpload /\ validateSRTFormat(out["srtContent"]) /\ Called("response")) =>
               /\ input.available <=> Called("correctWithFallback")
               /\ out["response"].status = 200 \/ GenerationError
               /\ out["response"].status = 200 =>
                      /\ out["response"].stage = "complete"
                      /\ validateBunnyStreamCompliance(
                             Str(out["response"].vttContent)).isValid
               /\ ~input.available =>
                      (out["response"].status = 200
                           <=> (UploadedVTT.ok /\ UploadedVTTCompliance.isValid))

\* the correction service was asked, and the request ended at stage
\* 'conversion' for a VTT that was generated and is not compliant
C27_Witness ==
    /\ Called("correctWithFallback")
    /\ Called("response")
    /\ GenerationError
    /\ out["stages"] = StagesUntil(1, "conversion")
    /\ UploadedVTT.ok
    /\ ~UploadedVTTCompliance.isValid

=============================================================================
